---- MODULE Spec2Model ----
(***************************************************************************)
(* A model of the kacanopen master stack: the NMT liveness supervisor      *)
(* (include/kacanopen/core/nmt.h) and the per-node Device facade           *)
(* (src/master/device.cpp).                                                *)
(*                                                                         *)
(* The module holds several specifications over one set of variables; each *)
(* specification drives one part of the program and leaves the variables   *)
(* of the other parts at their initial values:                             *)
(*   SpecNMT    heartbeat consumption and the liveness sweep               *)
(*   SpecRemap  map_tpdo_in_device / map_rpdo_in_device, one run           *)
(*   SpecSdo    get_entry / set_entry by address with the SDO retry loop   *)
(*   SpecDict   the dictionary and the name index under registrations,     *)
(*              inbound PDOs and dictionary loads                          *)
(***************************************************************************)
EXTENDS Integers, Sequences, FiniteSets, TLC

(***************************************************************************)
(* Bounds of the model.                                                    *)
(***************************************************************************)
MaxNode == 2
MaxSweeps == 3
MaxEvents == 3

(***************************************************************************)
(* NMT: state.                                                             *)
(***************************************************************************)
VARIABLES
    alive_devices_,   \* NMT::alive_devices_ : node id -> DeviceState ("NONE": no entry)
    alive_fired,      \* per node: dispatches of the device_alive callbacks so far
    dead_fired,       \* per node: dispatches of the device_dead callbacks so far
    since_hb,         \* history: sweeps passed over the node since its last heartbeat
    dead_since_hb,    \* history: device_dead dispatches since the node's last heartbeat
    regular,          \* history: no two consecutive sweeps passed without a heartbeat
    sweeps_seen,      \* history: sweeps passed over the node since its first heartbeat
    hb_tick,          \* history: flips with every processed heartbeat frame
    hb_last           \* history: the last processed heartbeat, [node, state]

nmt_vars == <<alive_devices_, alive_fired, dead_fired, since_hb, dead_since_hb,
              regular, sweeps_seen, hb_tick, hb_last>>

(***************************************************************************)
(* Device: state (src/master/device.cpp).                                  *)
(***************************************************************************)
VARIABLES
    m_dictionary,   \* Device::m_dictionary : Address -> Entry
    repeats,        \* Config::repeats_on_sdo_timeout
    op,             \* the Device operation the caller thread is in, with its arguments
    pc,             \* the caller's position in that operation
    offset,         \* write_entry: the local `offset`
    cob_id,         \* map_*_in_device: the local `cob_id`
    att,            \* get/set_entry_via_sdo: the loop variable i (-1: not in the loop)
    last_error,     \* get/set_entry_via_sdo: the local `last_error` (unknown
                    \* outside the loop)
    err,            \* the error the operation raised to its caller
    ret,            \* the Value get_entry returned
    sdo_log,        \* history: the SDO operations issued on the remote node, in order
    outcomes        \* history: how each m_core.sdo call of the get/set_entry the
                    \* caller is in, or has ended with, ended ("ok" or the
                    \* sdo_error's type); empty again when the caller goes on
                    \* to its next call

dev_vars == <<m_dictionary, repeats, op, pc, offset, cob_id, att, last_error, err, ret,
              sdo_log, outcomes>>

\* The name index and the PDO mappings of the Device.
VARIABLES
    m_name_to_address,       \* Device::m_name_to_address : escaped name -> Address
    m_receive_pdo_mappings,  \* Device::m_receive_pdo_mappings (as a set)
    m_transmit_pdo_mappings  \* Device::m_transmit_pdo_mappings (as a set)

map_vars == <<m_name_to_address, m_receive_pdo_mappings, m_transmit_pdo_mappings>>

\* The receiver thread, the remote node, and what a step does on the bus and
\* to the entries' subscribers.
VARIABLES
    rx_pc,    \* the receiver thread's position in Device::pdo_received_callback
    rx_call,  \* the mapping and the payload of the callback the receiver is
              \* in, or was in last
    remote,   \* the remote node's object store: Address -> the bytes it holds
    events    \* history: the Entry::set_value calls made, the value-changed
              \* callbacks' sends and the remote requests of the latest step,
              \* in order

rx_vars == <<rx_pc, rx_call>>

\* What the Device has registered at the PDO engine of its Core.
VARIABLES
    cob_ids_,       \* Device::cob_ids_ : the COB-IDs the destructor unregisters
    pdo_callbacks   \* the PDO engine's callbacks, in registration order

pdo_vars == <<cob_ids_, pdo_callbacks>>

\* The Device's node id, its operations and constants, and its heartbeat
\* producer.
VARIABLES
    m_node_id,                  \* Device::m_node_id
    m_operations,               \* Device::m_operations : escaped name -> Operation
    m_constants,                \* Device::m_constants : escaped name -> Value
    terminating_,               \* Device::terminating_
    request_heartbeat_thread_,  \* Device::request_heartbeat_thread_ and, in `pc`,
                                \* its thread's position in Device::send_heartbeat
    trace                       \* history: the frames the producer threads and
                                \* Device::start send, their sleeps, the calls and
                                \* returns of the stopping operations, in order

life_vars == <<m_node_id, m_operations, m_constants, terminating_,
               request_heartbeat_thread_, trace>>

\* The process-wide flags the EDS loading consults.
VARIABLES
    Config    \* Config::eds_library_clear_dictionary, eds_reader_just_add_mappings
              \* and eds_reader_mark_entries_as_generic

\* The example program (src/examples/simple_pdo_rw_maxon.cpp): the locals of
\* main() its callbacks capture, and where its threads are.
VARIABLES
    keepRunning,       \* cleared by the signal handler
    found_node,        \* volatile bool found_node
    device_connected,  \* volatile bool device_connected
    device,            \* std::shared_ptr<kaco::Device> device : 0 when empty, else
                       \* the number of the Device it refers to
    devices_made,      \* Devices constructed so far
    device_mutex,      \* std::mutex device_mutex : the thread that holds it, or "free"
    main_pc,           \* main()'s position in its loop
    alive_pc,          \* the device_alive callback's position
    dead_pc            \* the device_dead callback's position

main_vars == <<keepRunning, found_node, device_connected, device, devices_made,
               device_mutex, main_pc, alive_pc, dead_pc>>

vars == <<nmt_vars, dev_vars, map_vars, pdo_vars, life_vars, rx_vars, remote, events,
          Config, main_vars>>

Nodes == 1..MaxNode

\* enum class DeviceState { ALIVE, DEAD, TO_BE_KILLED }
DeviceState == {"ALIVE", "DEAD", "TO_BE_KILLED"}

\* Byte 0 of a heartbeat frame: toggle bit (bit 7) and the NMT state (low 7 bits).
HeartbeatBytes == {5, 127, 133}

\* enum class State: the node's NMT state is the low seven bits of byte 0.
NmtStateOf(byte) == byte % 128

NoHeartbeat == [node |-> 0, state |-> 0]

InitNMT ==
    /\ alive_devices_ = [n \in Nodes |-> "NONE"]
    /\ alive_fired = [n \in Nodes |-> 0]
    /\ dead_fired = [n \in Nodes |-> 0]
    /\ since_hb = [n \in Nodes |-> 0]
    /\ dead_since_hb = [n \in Nodes |-> 0]
    /\ regular = [n \in Nodes |-> TRUE]
    /\ sweeps_seen = [n \in Nodes |-> 0]
    /\ hb_tick = FALSE
    /\ hb_last = NoHeartbeat

(***************************************************************************)
(* NMT::process_incoming_message on a 0x700+n frame: the node is marked    *)
(* ALIVE and, when it was not ALIVE before, the device_alive callbacks are *)
(* dispatched (one asynchronous task per callback).                        *)
(***************************************************************************)
FiresAliveAlways(was) == TRUE

FiresAlive(was) == was # "ALIVE"

process_incoming_message(n, byte) ==
    /\ FiresAlive(alive_devices_[n]) => alive_fired[n] < MaxEvents
    /\ alive_devices_' = [alive_devices_ EXCEPT ![n] = "ALIVE"]
    /\ alive_fired' = [alive_fired EXCEPT
                         ![n] = IF FiresAlive(alive_devices_[n]) THEN @ + 1 ELSE @]
    /\ since_hb' = [since_hb EXCEPT ![n] = 0]
    /\ dead_since_hb' = [dead_since_hb EXCEPT ![n] = 0]
    /\ hb_tick' = ~hb_tick
    /\ hb_last' = [node |-> n, state |-> NmtStateOf(byte)]
    /\ UNCHANGED <<dead_fired, regular, sweeps_seen>>
    /\ UNCHANGED <<Config, main_vars, dev_vars, map_vars, pdo_vars, life_vars, rx_vars, remote, events>>

(***************************************************************************)
(* One pass of NMT::check_alive_devices over the liveness map: an ALIVE    *)
(* entry becomes TO_BE_KILLED; an entry still TO_BE_KILLED becomes DEAD    *)
(* and the device_dead callbacks are dispatched; a DEAD entry is left.     *)
(***************************************************************************)
SweepEntryNoGrace(s) == IF s \in {"ALIVE", "TO_BE_KILLED"} THEN "DEAD" ELSE s

SweepEntry(s) == IF s = "ALIVE" THEN "TO_BE_KILLED"
                 ELSE IF s = "TO_BE_KILLED" THEN "DEAD"
                 ELSE s

\* The device_dead callbacks are dispatched for an entry the pass turns DEAD.
SweepKillsAgain(s) == s \in {"TO_BE_KILLED", "DEAD"} /\ SweepEntry(s) = "DEAD"

SweepKills(s) == s # "DEAD" /\ SweepEntry(s) = "DEAD"

check_alive_devices ==
    /\ \E n \in Nodes : alive_devices_[n] # "NONE"
    /\ \A n \in Nodes : since_hb[n] < MaxSweeps
    /\ \A n \in Nodes : SweepKills(alive_devices_[n]) => dead_fired[n] < MaxEvents
    /\ alive_devices_' = [n \in Nodes |-> SweepEntry(alive_devices_[n])]
    /\ dead_fired' = [n \in Nodes |->
                        IF SweepKills(alive_devices_[n]) THEN dead_fired[n] + 1
                        ELSE dead_fired[n]]
    /\ dead_since_hb' = [n \in Nodes |->
                           IF SweepKills(alive_devices_[n]) THEN dead_since_hb[n] + 1
                           ELSE dead_since_hb[n]]
    /\ since_hb' = [n \in Nodes |->
                      IF alive_devices_[n] # "NONE" THEN since_hb[n] + 1 ELSE since_hb[n]]
    /\ sweeps_seen' = [n \in Nodes |->
                         IF alive_devices_[n] # "NONE" /\ sweeps_seen[n] < MaxSweeps
                         THEN sweeps_seen[n] + 1 ELSE sweeps_seen[n]]
    /\ regular' = [n \in Nodes |->
                     regular[n] /\ ~(alive_devices_[n] # "NONE" /\ since_hb[n] >= 1)]
    /\ UNCHANGED <<alive_fired, hb_tick, hb_last>>
    /\ UNCHANGED <<Config, main_vars, dev_vars, map_vars, pdo_vars, life_vars, rx_vars, remote, events>>

Heartbeat == \E n \in Nodes, byte \in HeartbeatBytes : process_incoming_message(n, byte)

Sweep == check_alive_devices

NextNMT == Heartbeat \/ Sweep

(***************************************************************************)
(* Device (src/master/device.cpp): values, the dictionary and one caller   *)
(* thread running a Device operation.                                      *)
(***************************************************************************)
MaxRepeats == 1
MaxWords == 2

(***************************************************************************)
(* uint32_t values are sets of bit positions, so that the bit operations   *)
(* of the code are computed exactly on all 32 bits.                        *)
(***************************************************************************)
Bit(x, i) == (x \div (2 ^ i)) % 2

U32(hi, lo) == {i \in 0..15 : Bit(lo, i) = 1} \cup {i + 16 : i \in {j \in 0..15 : Bit(hi, j) = 1}}

AllOnes32 == 0..31

Xor32(a, b) == (a \ b) \cup (b \ a)

And32(a, b) == a \cap b

\* 1UL << 31
Bit31 == {31}

\* cob_id ^= static_cast<uint32_t>((-1 ^ cob_id) & (1UL << 31));
DisableCobIdToggle(c) == Xor32(c, Bit31)

DisableCobId(c) == Xor32(c, And32(Xor32(AllOnes32, c), Bit31))

\* cob_id ^= static_cast<uint32_t>((0 ^ cob_id) & (1UL << 31));
EnableCobId(c) == Xor32(c, And32(Xor32({}, c), Bit31))

Value(type, data) == [type |-> type, data |-> data]

\* A Value of Type::invalid: an entry that was never read or updated.
InvalidValue == Value("invalid", 0)

Address(index, subindex) == <<index, subindex>>

\* `subscribers`: the value-changed callbacks of the entry, in the order they
\* were added; each is the send closure of the transmit PDO of a COB-ID.
Entry(type, ram, wam) ==
    [name |-> "", type |-> type, value |-> InvalidValue,
     read_access_method |-> ram, write_access_method |-> wam,
     subscribers |-> <<>>, disabled |-> FALSE]

\* An entry of `events`.
Event(kind, address, cob) == [kind |-> kind, address |-> address, cob_id |-> cob]

SetValueEventsSilent(address, entry) == <<>>

\* entry.set_value(value) on the entry of the address: the assignment, then
\* every value-changed callback of the entry, each sending its PDO.
SetValueEvents(address, entry) ==
    <<Event("set_value", address, 0)>>
        \o [i \in 1..Len(entry.subscribers) |-> Event("send", address, entry.subscribers[i])]

\* bool Device::has_entry(index, subindex)
has_entry(address) == address \in DOMAIN m_dictionary

(***************************************************************************)
(* get_tpdo_indexes / get_rpdo_indexes: the communication and mapping      *)
(* parameter indexes of a PDO number; any other number raises             *)
(* canopen_error.                                                          *)
(***************************************************************************)
PdoNumbers == 1..4

get_tpdo_indexes(tpdo_no) == <<6144 + (tpdo_no - 1), 6656 + (tpdo_no - 1)>>

get_rpdo_indexes(rpdo_no) == <<5120 + (rpdo_no - 1), 5632 + (rpdo_no - 1)>>

Indexes(o) == IF o.kind = "map_rpdo" THEN get_rpdo_indexes(o.pdo_no)
              ELSE get_tpdo_indexes(o.pdo_no)

comm_param_idx(o) == Indexes(o)[1]

mapp_param_idx(o) == Indexes(o)[2]

NoOp ==
    [kind |-> "none", pdo_no |-> 0, entries |-> <<>>, transmit_type |-> 0, nargs |-> 0,
     address |-> <<0, 0>>, value |-> InvalidValue, method |-> "sdo"]

\* The inhibit time and event timer the four- and five-argument overloads are given.
InhibitTime == 100

EventTimer == 250

(***************************************************************************)
(* The get_entry / set_entry call the caller makes at position p.          *)
(***************************************************************************)
GetCall(address, method) ==
    [kind |-> "get", address |-> address, value |-> InvalidValue, method |-> method]

SetCall(address, value, method) ==
    [kind |-> "set", address |-> address, value |-> value, method |-> method]

CallAt(p) ==
    CASE p = "get" -> GetCall(op.address, op.method)
      [] p = "set" -> SetCall(op.address, op.value, op.method)
      [] p = "read_cob" -> GetCall(Address(comm_param_idx(op), 1), "sdo")
      [] p = "disable" -> SetCall(Address(comm_param_idx(op), 1), Value("uint32", cob_id), "sdo")
      [] p = "clear" -> SetCall(Address(mapp_param_idx(op), 0), Value("uint8", 0), "sdo")
      [] p = "write_entry" ->
            SetCall(Address(mapp_param_idx(op), offset), Value("uint32", op.entries[offset]), "sdo")
      [] p = "count" ->
            SetCall(Address(mapp_param_idx(op), 0), Value("uint8", Len(op.entries) % 256), "sdo")
      [] p = "ttype" ->
            SetCall(Address(comm_param_idx(op), 2), Value("uint8", op.transmit_type), "sdo")
      [] p = "inhibit" ->
            SetCall(Address(comm_param_idx(op), 3), Value("uint16", InhibitTime), "sdo")
      [] p = "event" ->
            SetCall(Address(comm_param_idx(op), 5), Value("uint16", EventTimer), "sdo")
      [] p = "enable" -> SetCall(Address(comm_param_idx(op), 1), Value("uint32", cob_id), "sdo")

CallPositions ==
    {"get", "set", "read_cob", "disable", "clear", "write_entry", "count", "ttype",
     "inhibit", "event", "enable"}

(***************************************************************************)
(* The position that follows p when the call at p has returned.            *)
(***************************************************************************)
AfterTransmitType(o) ==
    IF o.kind = "map_tpdo" /\ o.nargs >= 4 THEN "inhibit" ELSE "enable"

AfterInhibit(o) == IF o.nargs >= 5 THEN "event" ELSE "enable"

NextPositionMapFirst(p) ==
    CASE p \in {"get", "enable"} -> "returned"
      [] p = "set" -> IF op.kind = "set_get" THEN "get" ELSE "returned"
      [] p = "read_cob" -> "disable"
      [] p = "disable" -> IF Len(op.entries) > 0 THEN "write_entry" ELSE "clear"
      [] p = "write_entry" -> IF offset < Len(op.entries) THEN "write_entry" ELSE "clear"
      [] p = "clear" -> "count"
      [] p = "count" -> "ttype"
      [] p = "ttype" -> AfterTransmitType(op)
      [] p = "inhibit" -> AfterInhibit(op)
      [] p = "event" -> "enable"

NextPosition(p) ==
    CASE p \in {"get", "enable"} -> "returned"
      [] p = "set" -> IF op.kind = "set_get" THEN "get" ELSE "returned"
      [] p = "read_cob" -> "disable"
      [] p = "disable" -> "clear"
      [] p = "clear" -> IF Len(op.entries) > 0 THEN "write_entry" ELSE "count"
      [] p = "write_entry" -> IF offset < Len(op.entries) THEN "write_entry" ELSE "count"
      [] p = "count" -> "ttype"
      [] p = "ttype" -> AfterTransmitType(op)
      [] p = "inhibit" -> AfterInhibit(op)
      [] p = "event" -> "enable"

(***************************************************************************)
(* Errors.  sdo_error carries a type; the one raised at the end of         *)
(* get/set_entry_via_sdo is of type response_timeout and quotes the last   *)
(* error's text in its message only.                                       *)
(***************************************************************************)
\* `last`: the type of the error whose text the message quotes; `at` (history):
\* the caller's position when the error was raised.
NoError ==
    [class |-> "none", type |-> "none", abort_code |-> 0, last |-> "none", at |-> "none"]

sdo_error(type, code) == [NoError EXCEPT !.class = "sdo_error", !.type = type, !.abort_code = code]

dictionary_error(type) == [NoError EXCEPT !.class = "dictionary_error", !.type = type]

canopen_error == [NoError EXCEPT !.class = "canopen_error", !.type = "canopen_error"]

\* sdo_error last_error(sdo_error::type::unknown);
UnknownSdoError == sdo_error("unknown", 0)

\* throw sdo_error(response_timeout, "... failed after N+1 repeats. Last error: " + what())
RaisedAfterLoop(last) == [sdo_error("response_timeout", 0) EXCEPT !.last = last.type]

\* 0x06020000 (object does not exist)
AbortCodes == {100794368}

\* What m_core.sdo.upload / download does: returns, or raises an sdo_error.
SdoOutcomes ==
    {[ok |-> TRUE, error |-> NoError]}
        \cup {[ok |-> FALSE, error |-> sdo_error("response_timeout", 0)]}
        \cup {[ok |-> FALSE, error |-> sdo_error("abort", c)] : c \in AbortCodes}

\* COB-ID values the remote node may hold at communication subindex 1:
\* 0x00000181, 0x40000201, 0xFFFFFFFF.
CobIdValues == {U32(0, 385), U32(16384, 513), U32(65535, 65535)}

\* The data the remote node may answer an upload of an entry of the type with.
UploadData(type) ==
    CASE type = "uint32" -> CobIdValues
      [] type = "uint16" -> {0, 1000}
      [] type = "uint8" -> {0, 255}
      [] OTHER -> {0}

(***************************************************************************)
(* The call at position p has returned: the caller's locals and position.  *)
(***************************************************************************)
Return(p, value) ==
    /\ pc' = NextPosition(p)
    /\ offset' = IF NextPosition(p) = "write_entry" THEN offset + 1 ELSE offset
    /\ cob_id' = IF p = "read_cob" THEN DisableCobId(value.data)
                 ELSE IF NextPosition(p) = "enable" THEN EnableCobId(cob_id)
                 ELSE cob_id
    /\ ret' = IF p = "get" THEN value ELSE ret
    /\ att' = -1
    /\ last_error' = UnknownSdoError
    /\ UNCHANGED err

RaiseAndGoOn(e) ==
    /\ pc' = NextPosition(pc)
    /\ err' = [e EXCEPT !.at = pc]
    /\ att' = -1
    /\ UNCHANGED <<offset, cob_id, ret>>

Raise(e) ==
    /\ pc' = "thrown"
    /\ err' = [e EXCEPT !.at = pc]
    /\ att' = -1
    /\ UNCHANGED <<offset, cob_id, ret>>

ResolvesToSdoAlways(c, entry) == TRUE

ResolvesToSdo(c, entry) ==
    \/ c.method = "sdo"
    \/ /\ c.method = "use_default"
       /\ IF c.kind = "get" THEN entry.read_access_method = "sdo"
          ELSE entry.write_access_method = "sdo"

(***************************************************************************)
(* Device::get_entry / Device::set_entry up to the SDO transfer: the       *)
(* presence check, set_entry's type check and its assignment of the cached *)
(* value, and the choice of the access method.                             *)
(***************************************************************************)
TypeCheckNone(c, entry) == TRUE

TypeCheck(c, entry) == c.kind = "get" \/ c.value.type = entry.type

Enter ==
    /\ pc \in CallPositions
    /\ att = -1
    /\ LET c == CallAt(pc) IN
        IF ~has_entry(c.address)
        THEN /\ Raise(dictionary_error("unknown_entry"))
             /\ events' = <<>>
             /\ UNCHANGED <<m_dictionary, last_error, sdo_log, outcomes>>
        ELSE LET entry == m_dictionary[c.address] IN
            IF ~TypeCheck(c, entry)
            THEN /\ Raise(dictionary_error("wrong_type"))
                 /\ events' = <<>>
                 /\ UNCHANGED <<m_dictionary, last_error, sdo_log, outcomes>>
            ELSE /\ m_dictionary' =
                        IF c.kind = "set"
                        THEN [m_dictionary EXCEPT ![c.address].value = c.value]
                        ELSE m_dictionary
                 /\ events' = IF c.kind = "set" THEN SetValueEvents(c.address, entry)
                              ELSE <<>>
                 /\ outcomes' = <<>>
                 /\ IF ResolvesToSdo(c, entry)
                    THEN /\ att' = 0
                         /\ last_error' = UnknownSdoError
                         /\ UNCHANGED <<pc, offset, cob_id, ret, err, sdo_log>>
                    ELSE /\ Return(pc, IF c.kind = "get" THEN entry.value ELSE c.value)
                         /\ UNCHANGED sdo_log
    /\ UNCHANGED <<repeats, op>>
    /\ UNCHANGED <<nmt_vars, Config, main_vars, life_vars, map_vars, pdo_vars, rx_vars, remote>>

(***************************************************************************)
(* One pass of the loop of get_entry_via_sdo / set_entry_via_sdo: one      *)
(* m_core.sdo.upload or download; any sdo_error is caught, kept as         *)
(* last_error, and the loop goes on while i < repeats_on_sdo_timeout + 1.  *)
(***************************************************************************)
\* An entry of sdo_log: an operation is logged when it is first issued, a
\* repetition of it is not logged again, and an upload's entry gets the
\* uploaded value when the upload succeeds.
LogEntry(c) ==
    [dir |-> IF c.kind = "get" THEN "upload" ELSE "download",
     address |-> c.address,
     value |-> IF c.kind = "get" THEN InvalidValue ELSE c.value]

LoopGoesOnOnceMore(i, error) == i + 1 < repeats + 2

LoopGoesOn(i, error) == i + 1 < repeats + 1

StoresUploadOfFailure(c, outcome) == c.kind = "get"

\* entry.set_value(get_entry_via_sdo(...)) runs when get_entry_via_sdo has
\* returned, which it does from inside the try block of a successful upload.
StoresUpload(c, outcome) == c.kind = "get" /\ outcome.ok

Attempt(outcome, data) ==
    /\ pc \in CallPositions
    /\ att >= 0
    /\ LET c == CallAt(pc)
           entry == m_dictionary[c.address] IN
        /\ sdo_log' =
              LET issued == IF att = 0 THEN Append(sdo_log, LogEntry(c)) ELSE sdo_log IN
              IF outcome.ok /\ c.kind = "get"
              THEN [issued EXCEPT ![Len(issued)].value = Value(entry.type, data)]
              ELSE issued
        /\ outcomes' =
              IF outcome.ok /\ NextPosition(pc) # "returned"
              THEN <<>>
              ELSE Append(outcomes, IF outcome.ok THEN "ok" ELSE outcome.error.type)
        /\ events' = IF outcome.ok /\ c.kind = "get"
                     THEN SetValueEvents(c.address, entry) ELSE <<>>
        /\ m_dictionary' =
              IF StoresUpload(c, outcome)
              THEN [m_dictionary EXCEPT ![c.address].value = Value(entry.type, data)]
              ELSE m_dictionary
        /\ IF outcome.ok
           THEN Return(pc, IF c.kind = "get" THEN Value(entry.type, data) ELSE c.value)
           ELSE /\ IF LoopGoesOn(att, outcome.error)
                   THEN /\ att' = att + 1
                        /\ last_error' = outcome.error
                        /\ UNCHANGED <<pc, offset, cob_id, ret, err>>
                   ELSE /\ Raise(RaisedAfterLoop(outcome.error))
                        /\ last_error' = outcome.error
    /\ UNCHANGED <<repeats, op>>
    /\ UNCHANGED <<nmt_vars, Config, main_vars, life_vars, map_vars, pdo_vars, rx_vars>>

SdoTransfer ==
    /\ pc \in CallPositions
    /\ att >= 0
    /\ \E outcome \in SdoOutcomes :
          IF outcome.ok /\ CallAt(pc).kind = "get"
          THEN \E data \in UploadData(m_dictionary[CallAt(pc).address].type) :
                  Attempt(outcome, data)
          ELSE Attempt(outcome, 0)
    /\ UNCHANGED remote

(***************************************************************************)
(* SpecRemap: map_tpdo_in_device (its three overloads) and                 *)
(* map_rpdo_in_device, run once on a dictionary that holds the PDO         *)
(* communication and mapping parameters of the remote node.                *)
(***************************************************************************)
\* 0x606C0020, 0x60410010
MapWords == {U32(24684, 32), U32(24641, 16)}

TransmitTypes == {1, 255}

\* TPDO_NO / RPDO_NO values the caller may pass; 5 is no enumerator.
PdoInputs == 1..5

RECURSIVE SeqsUpTo(_, _)
SeqsUpTo(S, n) ==
    IF n = 0 THEN {<<>>}
    ELSE LET shorter == SeqsUpTo(S, n - 1) IN
         shorter \cup {Append(q, x) : q \in {r \in shorter : Len(r) = n - 1}, x \in S}

\* The PDO parameter entries of an EDS: communication parameters 0x1400+n /
\* 0x1800+n (subindexes 1, 2, 3, 5) and mapping parameters 0x1600+n / 0x1A00+n.
CommIndexes == {5120 + n : n \in 0..3} \cup {6144 + n : n \in 0..3}

MappIndexes == {5632 + n : n \in 0..3} \cup {6656 + n : n \in 0..3}

PdoParameterType(address) ==
    IF address[1] \in CommIndexes
    THEN CASE address[2] = 1 -> "uint32"
           [] address[2] = 2 -> "uint8"
           [] OTHER -> "uint16"
    ELSE IF address[2] = 0 THEN "uint8" ELSE "uint32"

PdoParameterAddresses ==
    {Address(i, sub) : i \in CommIndexes, sub \in {1, 2, 3, 5}}
        \cup {Address(i, sub) : i \in MappIndexes, sub \in 0..MaxWords}

PdoParameterDictionary ==
    [a \in PdoParameterAddresses |-> Entry(PdoParameterType(a), "sdo", "sdo")]

\* Dictionaries the Device may hold when the remap runs: the complete one, one
\* without mapping subindex 2, one whose transmission type entries are
\* UNSIGNED16.
Without(dict, subindex, indexes) ==
    [a \in {b \in DOMAIN dict : ~(b[1] \in indexes /\ b[2] = subindex)} |-> dict[a]]

RemapDictionaries ==
    {PdoParameterDictionary,
     Without(PdoParameterDictionary, 2, MappIndexes),
     [a \in PdoParameterAddresses |->
         IF a[1] \in CommIndexes /\ a[2] = 2
         THEN Entry("uint16", "sdo", "sdo") ELSE PdoParameterDictionary[a]]}

\* main() before its loop: nothing found, the pointer empty (204-216).
InitMain ==
    /\ keepRunning = TRUE
    /\ found_node = FALSE
    /\ device_connected = FALSE
    /\ device = 0
    /\ devices_made = 0
    /\ device_mutex = "free"
    /\ main_pc = "test"
    /\ alive_pc = "idle"
    /\ dead_pc = "idle"

\* The flags as the process starts with them.
DefaultConfig ==
    [eds_library_clear_dictionary |-> FALSE, eds_reader_just_add_mappings |-> FALSE,
     eds_reader_mark_entries_as_generic |-> FALSE]

InitCaller ==
    /\ Config = DefaultConfig
    /\ InitMain
    /\ op = NoOp
    /\ pc = "idle"
    /\ offset = 0
    /\ cob_id = {}
    /\ att = -1
    /\ last_error = UnknownSdoError
    /\ err = NoError
    /\ ret = InvalidValue
    /\ sdo_log = <<>>
    /\ outcomes = <<>>

\* No callback is running; the remote node's store is not looked at. In
\* rx_call, `address` is the entry the callback's reference `entry` names.
NoCall == [address |-> <<0, 0>>, offset |-> 0, data |-> <<>>]

\* Device::Device(core, node_id): no callback registered, no operation, no
\* constant, terminating_(false), no heartbeat thread.
NoThread ==
    [started |-> FALSE, joined |-> FALSE, pc |-> "none",
     node_id |-> 0, heartbeat_interval |-> 0, state |-> 0]

InitDevice(node_id) ==
    /\ m_node_id = node_id
    /\ m_operations = <<>>
    /\ m_constants = <<>>
    /\ terminating_ = FALSE
    /\ request_heartbeat_thread_ = NoThread
    /\ cob_ids_ = <<>>
    /\ pdo_callbacks = <<>>
    /\ trace = <<>>

InitNoMappings ==
    /\ m_name_to_address = <<>>
    /\ m_receive_pdo_mappings = {}
    /\ m_transmit_pdo_mappings = {}
    /\ rx_pc = "idle"
    /\ rx_call = NoCall
    /\ remote = <<>>
    /\ events = <<>>

InitRemap ==
    /\ m_dictionary \in RemapDictionaries
    /\ repeats \in {0, MaxRepeats}
    /\ InitCaller
    /\ InitDevice(1)
    /\ InitNoMappings
    /\ InitNMT

\* map_tpdo_in_device (nargs = 3, 4, 5) and map_rpdo_in_device up to their first call.
StartMap(kind, nargs, pdo_no, entries, transmit_type) ==
    /\ pc = "idle"
    /\ op' = [NoOp EXCEPT !.kind = kind, !.nargs = nargs, !.pdo_no = pdo_no,
                          !.entries = entries, !.transmit_type = transmit_type]
    /\ IF pdo_no \in PdoNumbers
       THEN /\ pc' = "read_cob"
            /\ UNCHANGED err
       ELSE /\ pc' = "thrown"
            /\ err' = [canopen_error EXCEPT !.at = "get_indexes"]
    /\ offset' = 0
    /\ cob_id' = {}
    /\ events' = <<>>
    /\ UNCHANGED <<m_dictionary, repeats, att, last_error, ret, sdo_log, outcomes>>
    /\ UNCHANGED <<nmt_vars, Config, main_vars, life_vars, map_vars, pdo_vars, rx_vars, remote>>

map_tpdo_in_device ==
    \E nargs \in {3, 4, 5}, pdo_no \in PdoInputs, entries \in SeqsUpTo(MapWords, MaxWords),
       transmit_type \in TransmitTypes :
        StartMap("map_tpdo", nargs, pdo_no, entries, transmit_type)

map_rpdo_in_device ==
    \E pdo_no \in PdoInputs, entries \in SeqsUpTo(MapWords, MaxWords),
       transmit_type \in TransmitTypes :
        StartMap("map_rpdo", 3, pdo_no, entries, transmit_type)

NextRemap == map_tpdo_in_device \/ map_rpdo_in_device \/ Enter \/ SdoTransfer

SpecRemap == InitRemap /\ [][NextRemap]_vars

(***************************************************************************)
(* SpecSdo: a caller reads and writes entries through Device::get_entry    *)
(* and Device::set_entry, one call after the other.                        *)
(***************************************************************************)
\* 0x1000 device type, 0x1017 producer heartbeat time, 0x6040 controlword
\* (process data: its default access methods are pdo).
SdoDictionary ==
    (<<4096, 0>> :> Entry("uint32", "sdo", "sdo"))
        @@ (<<4119, 0>> :> Entry("uint16", "sdo", "sdo"))
        @@ (<<24640, 0>> :> Entry("uint16", "pdo", "pdo"))

\* The addresses a caller names: the dictionary's and 0x2000sub0, which it lacks.
CallerAddresses == DOMAIN SdoDictionary \cup {<<8192, 0>>}

AccessMethods == {"sdo", "pdo", "pdo_request_and_wait", "use_default"}

CallerValues == {Value("uint16", 6), Value("uint16", 250), Value("uint32", U32(2, 402))}

InitSdo ==
    /\ m_dictionary = SdoDictionary
    /\ repeats \in 0..MaxRepeats
    /\ InitCaller
    /\ InitDevice(1)
    /\ InitNoMappings
    /\ InitNMT

StartCall(kind, address, value, method) ==
    /\ pc \in {"idle", "returned", "thrown"}
    /\ op' = [NoOp EXCEPT !.kind = kind, !.address = address, !.value = value,
                          !.method = method]
    /\ pc' = kind
    /\ err' = NoError
    /\ ret' = InvalidValue
    /\ sdo_log' = <<>>
    /\ outcomes' = <<>>
    /\ events' = <<>>
    /\ UNCHANGED <<m_dictionary, repeats, offset, cob_id, att, last_error>>
    /\ UNCHANGED <<nmt_vars, Config, main_vars, life_vars, map_vars, pdo_vars, rx_vars, remote>>

get_entry ==
    \E address \in CallerAddresses, method \in AccessMethods :
        StartCall("get", address, InvalidValue, method)

set_entry ==
    \E address \in CallerAddresses, value \in CallerValues, method \in AccessMethods :
        StartCall("set", address, value, method)

NextSdo == get_entry \/ set_entry \/ Enter \/ SdoTransfer

SpecSdo == InitSdo /\ [][NextSdo]_vars

(***************************************************************************)
(* SpecDict: the dictionary and the name index of a Device under           *)
(* add_entry, the PDO mapping registrations, inbound PDO callbacks,        *)
(* get_entry / set_entry by name and load_dictionary_from_eds.             *)
(***************************************************************************)
\* Names a caller passes; Utils::escape lower-cases a name and joins its words
\* with "_".
CallerNames == {"Device Type", "controlword"}

Escape(name) == IF name = "Device Type" THEN "device_type" ELSE name

\* 0x0000sub0 is Address{}, 0x1000sub0 the device type, 0x6040sub0 the controlword.
DictAddresses == {Address(0, 0), Address(4096, 0), Address(24640, 0)}

\* The address a caller registers PDO mappings by index with.
IndexAddresses == {Address(24640, 0)}

\* The type a caller declares an entry of the address with.
TypeAt(address) == IF address = Address(4096, 0) THEN "uint32" ELSE "uint16"

TypeSizeOne(type) == 1

\* Utils::get_type_size
TypeSize(type) ==
    CASE type = "uint8" -> 1
      [] type = "uint16" -> 2
      [] type = "uint32" -> 4
      [] OTHER -> 0

\* Entry(): what std::map::operator[] inserts into m_dictionary.
DefaultEntry == Entry("invalid", "sdo", "sdo")

\* m_dictionary[address]
DictionarySubscript(dict, address) ==
    IF address \in DOMAIN dict THEN dict ELSE dict @@ (address :> DefaultEntry)

\* m_name_to_address[name]
NameSubscript(names, name) ==
    IF name \in DOMAIN names THEN names ELSE names @@ (name :> Address(0, 0))

\* bool Device::has_entry(entry_name)
has_entry_name(entry_name) ==
    LET name == Escape(entry_name) IN
    /\ name \in DOMAIN m_name_to_address
    /\ has_entry(m_name_to_address[name])

Idle == pc \in {"idle", "returned", "thrown"}

\* A one-step operation has returned, or has raised e, and has left the
\* flags as `config`.
DoneConfig(kind, e, config) ==
    /\ Config' = config
    /\ op' = NoOp
    /\ pc' = IF e = NoError THEN "returned" ELSE "thrown"
    /\ err' = IF e = NoError THEN NoError ELSE [e EXCEPT !.at = kind]
    /\ ret' = InvalidValue
    /\ sdo_log' = <<>>
    /\ outcomes' = <<>>
    /\ events' = <<>>
    /\ UNCHANGED <<repeats, offset, cob_id, att, last_error>>
    /\ UNCHANGED <<nmt_vars, main_vars, life_vars, rx_vars, remote>>

\* A one-step operation that does not write the flags.
Done(kind, e) == DoneConfig(kind, e, Config)

InsertEntryDropped(dict, address, entry) == dict

\* m_dictionary.insert(std::make_pair(address, std::move(entry)))
InsertEntry(dict, address, entry) == dict @@ (address :> entry)

AlreadyExistsByName(entry_name, address) == entry_name \in DOMAIN m_name_to_address

\* add_entry's two tests: the name is in the name index, or the address is in
\* the dictionary.
AlreadyExists(entry_name, address) ==
    entry_name \in DOMAIN m_name_to_address \/ has_entry(address)

AddEntry(index, subindex, name, type) ==
    /\ Idle
    /\ LET entry_name == Escape(name)
           address == Address(index, subindex) IN
        IF AlreadyExists(entry_name, address)
        THEN /\ Done("add_entry", canopen_error)
             /\ UNCHANGED <<m_dictionary, m_name_to_address>>
        ELSE /\ m_dictionary' =
                    InsertEntry(m_dictionary, address,
                                [Entry(type, "sdo", "sdo") EXCEPT !.name = entry_name])
             /\ m_name_to_address' = m_name_to_address @@ (entry_name :> address)
             /\ Done("add_entry", NoError)
    /\ UNCHANGED <<m_receive_pdo_mappings, m_transmit_pdo_mappings, pdo_vars>>

add_entry ==
    \E address \in DictAddresses \ {Address(0, 0)}, name \in CallerNames :
        AddEntry(address[1], address[2], name, TypeAt(address))

MappingOffsets == {0, 6}

\* The mappings registered of each direction are capped.
MaxMappings == 1

\* m_core.pdo.add_pdo_received_callback(cob_id, binding): the engine's entry;
\* `callback` is what the binding calls.
Callback(cob, callback) == [cob_id |-> cob, callback |-> callback]

\* m_receive_pdo_mappings.push_front({cob_id, name, offset})
ReceivePDOMapping(cob, entry_name, byte_offset) ==
    [cob_id |-> cob, entry_name |-> entry_name, offset |-> byte_offset]

\* A Mapping of a transmit PDO: {entry_name, offset}.
Mapping(entry_name, byte_offset) == [entry_name |-> entry_name, offset |-> byte_offset]

\* 0x181: the COB-ID the receive mappings are registered with.
ReceiveCobIds == {385}

\* add_receive_pdo_mapping(cob_id, entry_name, offset)
AddReceiveByName(cob, entry_name, byte_offset) ==
    /\ Idle
    /\ Cardinality(m_receive_pdo_mappings) < MaxMappings
    /\ Len(pdo_callbacks) < MaxMappings
    /\ LET name == Escape(entry_name) IN
        IF ~has_entry_name(name)
        THEN /\ Done("add_receive_pdo_mapping", dictionary_error("unknown_entry"))
             /\ UNCHANGED <<m_receive_pdo_mappings, pdo_vars>>
        ELSE LET entry == m_dictionary[m_name_to_address[name]] IN
            IF byte_offset + TypeSize(entry.type) > 8
            THEN /\ Done("add_receive_pdo_mapping", dictionary_error("mapping_size"))
                 /\ UNCHANGED <<m_receive_pdo_mappings, pdo_vars>>
            ELSE /\ m_receive_pdo_mappings' =
                        m_receive_pdo_mappings \cup {ReceivePDOMapping(cob, name, byte_offset)}
                 /\ cob_ids_' = Append(cob_ids_, cob)
                 /\ pdo_callbacks' =
                        Append(pdo_callbacks, Callback(cob, "pdo_received_callback"))
                 /\ Done("add_receive_pdo_mapping", NoError)
    /\ UNCHANGED <<m_dictionary, m_name_to_address, m_transmit_pdo_mappings>>

\* add_receive_pdo_mapping(cob_id, entry_index, entry_subindex, byte_offset)
AddReceiveByIndex(cob, address, byte_offset) ==
    /\ Idle
    /\ Cardinality(m_receive_pdo_mappings) < MaxMappings
    /\ Len(pdo_callbacks) < MaxMappings
    /\ LET dict == DictionarySubscript(m_dictionary, address)
           entry == dict[address] IN
        /\ m_dictionary' = dict
        /\ IF byte_offset + TypeSize(entry.type) > 8
           THEN /\ Done("add_receive_pdo_mapping", dictionary_error("mapping_size"))
                /\ UNCHANGED <<m_receive_pdo_mappings, pdo_vars>>
           ELSE /\ m_receive_pdo_mappings' =
                       m_receive_pdo_mappings \cup {ReceivePDOMapping(cob, entry.name, byte_offset)}
                /\ cob_ids_' = Append(cob_ids_, cob)
                /\ pdo_callbacks' =
                       Append(pdo_callbacks, Callback(cob, "pdo_received_callback"))
                /\ Done("add_receive_pdo_mapping", NoError)
    /\ UNCHANGED <<m_name_to_address, m_transmit_pdo_mappings>>

\* By name and by index, at the start of the payload.
add_receive_pdo_mapping ==
    \E cob \in ReceiveCobIds, byte_offset \in {0} :
        \/ \E entry_name \in CallerNames : AddReceiveByName(cob, entry_name, byte_offset)
        \/ \E address \in IndexAddresses : AddReceiveByIndex(cob, address, byte_offset)

\* TransmitPDOMapping's constructor: check_correctness raises dictionary_error
\* when a mapped name is unknown or a mapped entry does not fit in the frame.
CheckCorrectness(dict, names, mappings) ==
    \A i \in 1..Len(mappings) :
        LET name == Escape(mappings[i].entry_name) IN
        /\ name \in DOMAIN names
        /\ names[name] \in DOMAIN dict
        /\ mappings[i].offset + TypeSize(dict[names[name]].type) <= 8

TransmissionTypes == {"ON_CHANGE", "PERIODIC"}

\* A TransmitPDOMapping as its constructor leaves it: no worker thread runs.
TransmitPDOMapping(cob, transmission_type, mappings) ==
    [cob_id |-> cob, transmission_type |-> transmission_type, mappings |-> mappings,
     run_periodic_transmitter |-> FALSE, periodic_transmitter |-> "none"]

\* ON_CHANGE: for each mapping of the PDO, in order, add_value_changed_callback
\* on the mapped entry with a closure that sends the PDO.
RECURSIVE AddValueChangedCallbacks(_, _, _, _)
AddValueChangedCallbacks(dict, names, mappings, cob) ==
    IF mappings = <<>> THEN dict
    ELSE LET address == names[Escape(Head(mappings).entry_name)] IN
         AddValueChangedCallbacks(
             [dict EXCEPT ![address].subscribers = Append(@, cob)],
             names, Tail(mappings), cob)

StartsWorkerAlways(transmission_type) == TRUE

\* PERIODIC: pdo.run_periodic_transmitter = true and the worker thread
\* pdo.periodic_transmitter starts, at the test of its loop.
StartsWorker(transmission_type) == transmission_type # "ON_CHANGE"

\* The registration after the mappings are known by name: the constructor,
\* then the value-changed callbacks (ON_CHANGE) or the worker thread (PERIODIC).
RegisterTransmit(dict, cob, transmission_type, mappings) ==
    IF CheckCorrectness(dict, m_name_to_address, mappings)
    THEN /\ m_transmit_pdo_mappings' =
                m_transmit_pdo_mappings \cup
                    {[TransmitPDOMapping(cob, transmission_type, mappings)
                         EXCEPT !.run_periodic_transmitter = StartsWorker(transmission_type),
                                !.periodic_transmitter =
                                    IF StartsWorker(transmission_type) THEN "test" ELSE "none"]}
         /\ m_dictionary' =
                IF transmission_type = "ON_CHANGE"
                THEN AddValueChangedCallbacks(dict, m_name_to_address, mappings, cob)
                ELSE dict
         /\ Done("add_transmit_pdo_mapping", NoError)
    ELSE /\ Done("add_transmit_pdo_mapping", dictionary_error("mapping"))
         /\ m_dictionary' = dict
         /\ UNCHANGED m_transmit_pdo_mappings

\* add_transmit_pdo_mapping(cob_id, mappings, transmission_type, repeat_time)
AddTransmitByName(cob, mappings, transmission_type) ==
    /\ Idle
    /\ Cardinality(m_transmit_pdo_mappings) < MaxMappings
    /\ RegisterTransmit(m_dictionary, cob, transmission_type, mappings)
    /\ UNCHANGED <<m_name_to_address, m_receive_pdo_mappings, pdo_vars>>

RECURSIVE SubscriptAll(_, _)
SubscriptAll(dict, addresses) ==
    IF addresses = <<>> THEN dict
    ELSE SubscriptAll(DictionarySubscript(dict, Head(addresses)), Tail(addresses))

\* add_transmit_pdo_mapping(cob_id, mappings_by_index, transmission_type, repeat_time)
AddTransmitByIndex(cob, mappings_by_index, transmission_type) ==
    /\ Idle
    /\ Cardinality(m_transmit_pdo_mappings) < MaxMappings
    /\ LET dict == SubscriptAll(m_dictionary,
                                [i \in 1..Len(mappings_by_index) |-> mappings_by_index[i].address])
           mappings == [i \in 1..Len(mappings_by_index) |->
                           Mapping(dict[mappings_by_index[i].address].name,
                                   mappings_by_index[i].offset)] IN
        RegisterTransmit(dict, cob, transmission_type, mappings)
    /\ UNCHANGED <<m_name_to_address, m_receive_pdo_mappings, pdo_vars>>

\* 0x201: the COB-ID the transmit PDOs are registered with.
TransmitCobIds == {513}

add_transmit_pdo_mapping ==
    \E byte_offset \in {0}, cob \in TransmitCobIds :
        \/ \E entry_name \in CallerNames :
              AddTransmitByName(cob, <<Mapping(entry_name, byte_offset)>>, "PERIODIC")
        \/ \E address \in IndexAddresses :
              AddTransmitByIndex(cob, <<[address |-> address, offset |-> byte_offset]>>,
                                 "PERIODIC")

(***************************************************************************)
(* Value: a type and its little-endian bytes.  Value::get_bytes and the    *)
(* constructor Value(type, bytes); a uint32 is held as its set of bits.    *)
(***************************************************************************)
RECURSIVE BytesOf(_, _)
BytesOf(n, width) ==
    IF width = 0 THEN <<>> ELSE <<n % 256>> \o BytesOf(n \div 256, width - 1)

RECURSIVE NumberOf(_)
NumberOf(bytes) ==
    IF bytes = <<>> THEN 0 ELSE Head(bytes) + 256 * NumberOf(Tail(bytes))

RECURSIVE ByteOfBits(_, _, _)
ByteOfBits(bits, i, k) ==
    IF k > 7 THEN 0
    ELSE (IF 8 * i + k \in bits THEN 2 ^ k ELSE 0) + ByteOfBits(bits, i, k + 1)

BitsOf(bytes) ==
    {b \in 0..(8 * Len(bytes) - 1) : (bytes[(b \div 8) + 1] \div (2 ^ (b % 8))) % 2 = 1}

get_bytes(value) ==
    IF value.type = "uint32"
    THEN [i \in 1..4 |-> ByteOfBits(value.data, i - 1, 0)]
    ELSE BytesOf(value.data, TypeSize(value.type))

ValueOfBytes(type, bytes) ==
    Value(type, IF type = "uint32" THEN BitsOf(bytes) ELSE NumberOf(bytes))

\* The payloads of the inbound PDO frames: a two-byte and an eight-byte one.
Payloads == {<<7, 0>>, <<7, 0, 0, 0, 0, 0, 7, 0>>}

SliceFromStart(data, byte_offset, type_size) == SubSeq(data, 1, type_size)

\* std::vector<uint8_t> bytes(data.begin() + offset, data.begin() + offset + type_size)
Slice(data, byte_offset, type_size) == SubSeq(data, byte_offset + 1, byte_offset + type_size)

\* data.size() < offset + type_size
TooShort(data, byte_offset, type_size) == Len(data) < byte_offset + type_size

\* Device::pdo_received_callback(mapping, data), on the receiver thread.
PdoReceived(mapping, data) ==
    /\ LET entry_name == Escape(mapping.entry_name)
           names == NameSubscript(m_name_to_address, entry_name)
           address == names[entry_name]
           dict == DictionarySubscript(m_dictionary, address)
           entry == dict[address]
           type_size == TypeSize(entry.type) IN
        /\ m_name_to_address' = names
        /\ IF entry.type = "invalid" \/ TooShort(data, mapping.offset, type_size)
           THEN /\ m_dictionary' = dict
                /\ events' = <<>>
           ELSE /\ m_dictionary' =
                      [dict EXCEPT ![address].value =
                          ValueOfBytes(entry.type, Slice(data, mapping.offset, type_size))]
                /\ events' = SetValueEvents(address, entry)
    /\ UNCHANGED <<repeats, op, pc, offset, cob_id, att, last_error, err, ret, sdo_log, outcomes>>
    /\ UNCHANGED <<m_receive_pdo_mappings, m_transmit_pdo_mappings, pdo_vars>>
    /\ UNCHANGED <<nmt_vars, Config, main_vars, life_vars, rx_vars, remote>>

pdo_received_callback ==
    \E mapping \in m_receive_pdo_mappings, data \in Payloads : PdoReceived(mapping, data)

\* get_entry(entry_name, access_method) / set_entry(entry_name, value, access_method)
StartCallByName(kind, entry_name, value, method) ==
    LET name == Escape(entry_name) IN
    IF has_entry_name(name)
    THEN StartCall(kind, m_name_to_address[name], value, method)
    ELSE /\ Idle
         /\ Done(kind, dictionary_error("unknown_entry"))
         /\ UNCHANGED <<m_dictionary, map_vars, pdo_vars>>

get_entry_by_name ==
    \E entry_name \in CallerNames, method \in {"pdo"} :
        StartCallByName("get", entry_name, InvalidValue, method)

set_entry_by_name ==
    \E entry_name \in CallerNames, value \in {Value("uint16", 6)}, method \in {"pdo"} :
        StartCallByName("set", entry_name, value, method)

\* EDS files a load may read (the entries they declare) and the entries of
\* the CiA profile the library merges afterwards.
EdsEntry(address, name, type) == [address |-> address, name |-> name, type |-> type]

EdsFiles ==
    {{},
     {EdsEntry(Address(24640, 0), "controlword", "uint16")},
     {EdsEntry(Address(4096, 0), "device_type", "uint32"),
      EdsEntry(Address(24640, 0), "control_word", "uint16")}}

CiaEntries ==
    {EdsEntry(Address(4096, 0), "device_type", "uint32"),
     EdsEntry(Address(24640, 0), "controlword", "uint16")}

\* EDSReader::import_entries with eds_reader_just_add_mappings = false
ImportedDictionary(eds) ==
    [a \in {e.address : e \in eds} |->
        LET e == CHOOSE x \in eds : x.address = a IN
        [Entry(e.type, "sdo", "sdo") EXCEPT !.name = e.name]]

ImportedNames(eds) ==
    [n \in {e.name : e \in eds} |-> (CHOOSE x \in eds : x.name = n).address]

\* The merge with eds_reader_just_add_mappings = true: an address the
\* dictionary has only gets the standard name; a missing one gets the entry.
MergedDictionary(dict, cia) ==
    [a \in DOMAIN dict \cup {e.address : e \in cia} |->
        IF a \in DOMAIN dict THEN dict[a]
        ELSE LET e == CHOOSE x \in cia : x.address = a IN
             [Entry(e.type, "sdo", "sdo") EXCEPT !.name = e.name]]

MergedNames(names, cia) ==
    [n \in DOMAIN names \cup {e.name : e \in cia} |->
        IF n \in DOMAIN names THEN names[n]
        ELSE (CHOOSE x \in cia : x.name = n).address]

\* How a load ends: load_file / import_entries fail; the EDS library is not
\* available; the SDO read of the device profile number fails; all succeed.
LoadOutcomes == {"unreadable", "no_library", "no_profile", "loaded"}

\* load_cia_dictionary is left by an error of get_device_profile_number or
\* of the mandatory entries: eds_reader_mark_entries_as_generic, set at its
\* first line, is still set.
CiaRaised(config) == [config EXCEPT !.eds_reader_mark_entries_as_generic = TRUE]

\* load_cia_dictionary returns: the flag is cleared at its last line; on the
\* way through the mandatory entries eds_library_clear_dictionary is cleared.
CiaReturned(config, mandatory) ==
    [config EXCEPT !.eds_reader_mark_entries_as_generic = FALSE,
                   !.eds_library_clear_dictionary = IF mandatory THEN FALSE ELSE @]

\* Device::load_dictionary_from_eds(path): reset, import, add 0x1000 if it is
\* missing, read the device profile number and merge the CiA names.
LoadDictionaryFromEds(eds, outcome) ==
    /\ Idle
    /\ LET readable == outcome # "unreadable"
           dict1 == IF readable THEN ImportedDictionary(eds) ELSE <<>>
           names1 == IF readable THEN ImportedNames(eds) ELSE <<>>
           device_type == Address(4096, 0)
           adds == device_type \notin DOMAIN dict1
           add_fails == adds /\ "device_type" \in DOMAIN names1
           dict2 == IF adds /\ ~add_fails
                    THEN dict1 @@ (device_type :>
                            [Entry("uint32", "sdo", "sdo") EXCEPT !.name = "device_type"])
                    ELSE dict1
           names2 == IF adds /\ ~add_fails
                     THEN names1 @@ ("device_type" :> device_type)
                     ELSE names1
           \* lines 589-591: both reader flags are cleared first
           cleared == [Config EXCEPT !.eds_reader_just_add_mappings = FALSE,
                                     !.eds_reader_mark_entries_as_generic = FALSE]
           \* line 615, then load_cia_dictionary
           adding == [cleared EXCEPT !.eds_reader_just_add_mappings = TRUE] IN
        CASE outcome = "unreadable" ->
                /\ m_dictionary' = dict1
                /\ m_name_to_address' = names1
                /\ DoneConfig("load_dictionary_from_eds", canopen_error, cleared)
          [] outcome = "no_library" ->
                /\ m_dictionary' = dict1
                /\ m_name_to_address' = names1
                /\ DoneConfig("load_dictionary_from_eds", NoError, cleared)
          [] outcome \in {"no_profile", "loaded"} /\ add_fails ->
                /\ m_dictionary' = dict1
                /\ m_name_to_address' = names1
                /\ DoneConfig("load_dictionary_from_eds", canopen_error, cleared)
          [] outcome = "no_profile" /\ ~add_fails ->
                /\ m_dictionary' = dict2
                /\ m_name_to_address' = names2
                /\ DoneConfig("load_dictionary_from_eds", sdo_error("response_timeout", 0),
                             CiaRaised(adding))
          [] outcome = "loaded" /\ ~add_fails ->
                /\ m_dictionary' = MergedDictionary(dict2, CiaEntries)
                /\ m_name_to_address' = MergedNames(names2, CiaEntries)
                /\ DoneConfig("load_dictionary_from_eds", NoError,
                             [CiaReturned(adding, FALSE) EXCEPT
                                 !.eds_reader_just_add_mappings = FALSE])
    /\ UNCHANGED <<m_receive_pdo_mappings, m_transmit_pdo_mappings, pdo_vars>>

load_dictionary_from_eds ==
    \E eds \in EdsFiles, outcome \in LoadOutcomes : LoadDictionaryFromEds(eds, outcome)

InitDict ==
    /\ m_dictionary = <<>>
    /\ repeats = 0
    /\ InitCaller
    /\ InitDevice(1)
    /\ InitNoMappings
    /\ InitNMT

NextDict ==
    \/ add_entry
    \/ add_receive_pdo_mapping
    \/ add_transmit_pdo_mapping
    \/ pdo_received_callback
    \/ get_entry_by_name
    \/ set_entry_by_name
    \/ Enter
    \/ load_dictionary_from_eds

SpecDict == InitDict /\ [][NextDict]_vars

(***************************************************************************)
(* SpecRace: a caller thread in add_entry and the receiver thread in       *)
(* pdo_received_callback, each taken statement by statement where it       *)
(* touches m_dictionary and m_name_to_address.  Neither function takes a   *)
(* lock; add_receive_pdo_mapping holds m_receive_pdo_mappings_mutex only   *)
(* around its push_front.                                                  *)
(***************************************************************************)
\* add_entry up to and including m_dictionary.insert.
AddEntryInsert(index, subindex, name, type) ==
    /\ Idle
    /\ LET entry_name == Escape(name)
           address == Address(index, subindex) IN
        IF AlreadyExists(entry_name, address)
        THEN /\ Done("add_entry", canopen_error)
             /\ UNCHANGED m_dictionary
        ELSE /\ m_dictionary' =
                    InsertEntry(m_dictionary, address,
                                [Entry(type, "sdo", "sdo") EXCEPT !.name = entry_name])
             /\ op' = [NoOp EXCEPT !.kind = "add_entry", !.address = address]
             /\ pc' = "add_entry"
             /\ err' = NoError
             /\ ret' = InvalidValue
             /\ sdo_log' = <<>>
             /\ outcomes' = <<>>
             /\ events' = <<>>
             /\ UNCHANGED <<repeats, offset, cob_id, att, last_error>>
             /\ UNCHANGED <<nmt_vars, Config, main_vars, life_vars, rx_vars, remote>>
    /\ UNCHANGED <<map_vars, pdo_vars>>

add_entry_insert ==
    \E address \in DictAddresses \ {Address(0, 0)}, name \in CallerNames :
        AddEntryInsert(address[1], address[2], name, TypeAt(address))

\* add_entry: m_name_to_address.insert of the name of the entry just
\* inserted, and the return.
add_entry_index ==
    /\ pc = "add_entry"
    /\ m_name_to_address' =
            m_name_to_address @@ (m_dictionary[op.address].name :> op.address)
    /\ Done("add_entry", NoError)
    /\ UNCHANGED <<m_dictionary, m_receive_pdo_mappings, m_transmit_pdo_mappings, pdo_vars>>

\* pdo_received_callback up to and including
\* Entry& entry = m_dictionary[m_name_to_address[entry_name]].
CallbackLookup(mapping, data) ==
    /\ rx_pc = "idle"
    /\ LET entry_name == Escape(mapping.entry_name)
           names == NameSubscript(m_name_to_address, entry_name)
           address == names[entry_name] IN
        /\ m_name_to_address' = names
        /\ m_dictionary' = DictionarySubscript(m_dictionary, address)
        /\ rx_call' = [address |-> address, offset |-> mapping.offset, data |-> data]
    /\ rx_pc' = "callback"
    /\ events' = <<>>
    /\ UNCHANGED <<repeats, op, pc, offset, cob_id, att, last_error, err, ret, sdo_log, outcomes>>
    /\ UNCHANGED <<m_receive_pdo_mappings, m_transmit_pdo_mappings, pdo_vars>>
    /\ UNCHANGED <<nmt_vars, Config, main_vars, life_vars, remote>>

callback_lookup ==
    \E mapping \in m_receive_pdo_mappings, data \in Payloads : CallbackLookup(mapping, data)

\* pdo_received_callback from the type test to its end, on the entry the
\* reference names.
callback_update ==
    /\ rx_pc = "callback"
    /\ LET address == rx_call.address
           entry == m_dictionary[address]
           type_size == TypeSize(entry.type) IN
        IF entry.type = "invalid" \/ TooShort(rx_call.data, rx_call.offset, type_size)
        THEN /\ UNCHANGED m_dictionary
             /\ events' = <<>>
        ELSE /\ m_dictionary' =
                    [m_dictionary EXCEPT ![address].value =
                        ValueOfBytes(entry.type, Slice(rx_call.data, rx_call.offset, type_size))]
             /\ events' = SetValueEvents(address, entry)
    /\ rx_pc' = "idle"
    /\ UNCHANGED rx_call
    /\ UNCHANGED <<repeats, op, pc, offset, cob_id, att, last_error, err, ret, sdo_log, outcomes>>
    /\ UNCHANGED <<map_vars, pdo_vars>>
    /\ UNCHANGED <<nmt_vars, Config, main_vars, life_vars, remote>>

\* add_receive_pdo_mapping(cob_id, entry_name, byte_offset), between two calls
\* of the caller.
add_receive_pdo_mapping_by_name ==
    \E cob \in ReceiveCobIds, entry_name \in CallerNames, byte_offset \in MappingOffsets :
        AddReceiveByName(cob, entry_name, byte_offset)

NextRace ==
    \/ add_entry_insert
    \/ add_entry_index
    \/ add_receive_pdo_mapping_by_name
    \/ callback_lookup
    \/ callback_update

SpecRace == InitDict /\ [][NextRace]_vars

(***************************************************************************)
(* SpecLibrary: load_dictionary_from_library next to add_entry and         *)
(* load_dictionary_from_eds.  The EDS library itself is not part of the    *)
(* sources: a call is given what the library finds.                        *)
(***************************************************************************)
\* The entries EDSLibrary::load_mandatory_entries adds (CiA 301).
MandatoryEntries == {EdsEntry(Address(4096, 0), "device_type", "uint32")}

\* The manufacturer's EDS file of the library.
ManufacturerEds ==
    {EdsEntry(Address(4096, 0), "device_type", "uint32"),
     EdsEntry(Address(24640, 0), "control_word", "uint16")}

\* What a call finds: whether the library is ready, whether it holds a
\* manufacturer EDS for the device, whether the read of 0x1000 succeeds,
\* whether it holds an EDS of the device's profile and whether the mandatory
\* entries can be loaded.
LibraryFinds ==
    [ready : BOOLEAN, manufacturer : BOOLEAN, profile_read : BOOLEAN,
     profile : BOOLEAN, mandatory : BOOLEAN]

\* get_device_profile_number: get_entry(0x1000) raises unknown_entry on a
\* dictionary that does not hold 0x1000sub0.
ProfileKnown(dict) == Address(4096, 0) \in DOMAIN dict

\* Device::load_dictionary_from_library with load_cia_dictionary.
LoadDictionaryFromLibrary(finds) ==
    /\ Idle
    /\ LET success == finds.manufacturer
           dict1 == IF success THEN ImportedDictionary(ManufacturerEds) ELSE m_dictionary
           names1 == IF success THEN ImportedNames(ManufacturerEds) ELSE m_name_to_address
           \* lines 526-528 and 539 / 545
           config1 == [Config EXCEPT !.eds_library_clear_dictionary = FALSE,
                                     !.eds_reader_just_add_mappings = success] IN
        CASE ~finds.ready ->
                /\ UNCHANGED <<m_dictionary, m_name_to_address>>
                /\ DoneConfig("load_dictionary_from_library", canopen_error, Config)
          [] finds.ready /\ ~ProfileKnown(dict1) ->
                /\ m_dictionary' = dict1
                /\ m_name_to_address' = names1
                /\ DoneConfig("load_dictionary_from_library",
                             dictionary_error("unknown_entry"), CiaRaised(config1))
          [] finds.ready /\ ProfileKnown(dict1) /\ ~finds.profile_read ->
                /\ m_dictionary' = dict1
                /\ m_name_to_address' = names1
                /\ DoneConfig("load_dictionary_from_library",
                             sdo_error("response_timeout", 0), CiaRaised(config1))
          [] finds.ready /\ ProfileKnown(dict1) /\ finds.profile_read /\ finds.profile ->
                /\ m_dictionary' = MergedDictionary(dict1, CiaEntries)
                /\ m_name_to_address' = MergedNames(names1, CiaEntries)
                /\ DoneConfig("load_dictionary_from_library", NoError,
                             [CiaReturned(config1, FALSE) EXCEPT
                                 !.eds_reader_just_add_mappings = FALSE])
          [] /\ finds.ready /\ ProfileKnown(dict1) /\ finds.profile_read
             /\ ~finds.profile /\ finds.mandatory ->
                /\ m_dictionary' = MergedDictionary(dict1, MandatoryEntries)
                /\ m_name_to_address' = MergedNames(names1, MandatoryEntries)
                /\ DoneConfig("load_dictionary_from_library", NoError,
                             [CiaReturned(config1, TRUE) EXCEPT
                                 !.eds_reader_just_add_mappings = FALSE])
          [] /\ finds.ready /\ ProfileKnown(dict1) /\ finds.profile_read
             /\ ~finds.profile /\ ~finds.mandatory ->
                /\ m_dictionary' = dict1
                /\ m_name_to_address' = names1
                /\ DoneConfig("load_dictionary_from_library", canopen_error,
                             CiaRaised(CiaReturned(config1, TRUE)))
    /\ UNCHANGED <<m_receive_pdo_mappings, m_transmit_pdo_mappings, pdo_vars>>

load_dictionary_from_library == \E finds \in LibraryFinds : LoadDictionaryFromLibrary(finds)

NextLibrary ==
    \/ add_entry
    \/ add_receive_pdo_mapping_by_name
    \/ load_dictionary_from_eds
    \/ load_dictionary_from_library

SpecLibrary == InitDict /\ [][NextLibrary]_vars

(***************************************************************************)
(* SpecTables: the operations and the constants of a Device under          *)
(* add_operation and add_constant.                                         *)
(***************************************************************************)
\* An operation of the caller has returned, or has raised e; `evs` is what
\* the step logged or sent. op keeps the name of the operation.
Finish(kind, e, evs) ==
    /\ op' = [NoOp EXCEPT !.kind = kind]
    /\ pc' = IF e = NoError THEN "returned" ELSE "thrown"
    /\ err' = IF e = NoError THEN NoError ELSE [e EXCEPT !.at = kind]
    /\ ret' = InvalidValue
    /\ sdo_log' = <<>>
    /\ outcomes' = <<>>
    /\ events' = evs
    /\ UNCHANGED <<repeats, offset, cob_id, att, last_error>>
    /\ UNCHANGED <<nmt_vars, Config, main_vars, rx_vars, remote>>

\* The Device has not been destroyed.
Alive == op.kind # "~Device"

\* Names a caller passes for operations and constants; the first two are the
\* same name after Utils::escape.
TableNames == {"Device Type", "device_type", "controlword"}

\* The std::function objects a caller passes, by name.
Operations == {"user_operation", "other_operation"}

\* The constants a caller passes.
Constants == {Value("uint16", 6), Value("uint16", 7)}

\* WARN("... Overwriting ...")
Warn(what) == Event(what, Address(0, 0), 0)

\* table[name] = x of a std::map: the element is created or overwritten.
Assign(table, name, x) ==
    [n \in DOMAIN table \cup {name} |-> IF n = name THEN x ELSE table[n]]

\* Device::add_operation(operation_name, operation)
AddOperation(operation_name, operation) ==
    /\ Idle
    /\ Alive
    /\ LET name == Escape(operation_name) IN
        /\ m_operations' = Assign(m_operations, name, operation)
        /\ Finish("add_operation", NoError,
                  IF name \in DOMAIN m_operations
                  THEN <<Warn("Overwriting operation")>> ELSE <<>>)
    /\ UNCHANGED <<m_node_id, m_constants, terminating_, request_heartbeat_thread_, trace>>
    /\ UNCHANGED <<m_dictionary, map_vars, pdo_vars>>

\* Device::add_constant(constant_name, constant)
AddConstant(constant_name, constant) ==
    /\ Idle
    /\ Alive
    /\ LET name == Escape(constant_name) IN
        /\ m_constants' = Assign(m_constants, name, constant)
        /\ Finish("add_constant", NoError,
                  IF name \in DOMAIN m_constants
                  THEN <<Warn("Overwriting constant")>> ELSE <<>>)
    /\ UNCHANGED <<m_node_id, m_operations, terminating_, request_heartbeat_thread_, trace>>
    /\ UNCHANGED <<m_dictionary, map_vars, pdo_vars>>

add_operation ==
    \E operation_name \in TableNames, operation \in Operations :
        AddOperation(operation_name, operation)

add_constant ==
    \E constant_name \in TableNames, constant \in Constants :
        AddConstant(constant_name, constant)

NextTables == add_operation \/ add_constant

SpecTables == InitDict /\ [][NextTables]_vars

(***************************************************************************)
(* SpecStart: Device::start, statement by statement: load_operations,      *)
(* load_constants, then the NMT start_node command.  Each load reads the   *)
(* device profile number, get_entry(0x1000), first.                        *)
(***************************************************************************)
\* The entries of the trace are capped.
MaxTrace == 4

\* An entry of the trace: a frame sent (`what` = "send"), a sleep, or the
\* call or return of an operation.
TraceEntry(thread, what, cob, data) ==
    [thread |-> thread, what |-> what, cob_id |-> cob, data |-> data]

\* NMT::send_nmt_message(node_id, cmd): COB-ID 0x000, data {cmd, node_id}.
NmtMessage(node_id, cmd) == TraceEntry("caller", "send", 0, <<cmd, node_id>>)

\* NMT::Command::start_node = 0x01
start_node == 1

\* What the read of 0x1000sub0 gives: the SDO upload fails at every attempt;
\* 0x00020192 (profile 402); 0x00000000 (no profile).
DeviceTypeReads ==
    {[ok |-> FALSE, data |-> U32(0, 0)],
     [ok |-> TRUE, data |-> U32(2, 402)],
     [ok |-> TRUE, data |-> U32(0, 0)]}

\* device_type & 0xFFFF
ProfileNumber(device_type) == {b \in device_type : b < 16}

\* Profiles::operations and Profiles::constants: what they hold for a profile.
ProfileOperations(profile) ==
    IF profile = U32(0, 402)
    THEN ("enable_operation" :> "profile_enable_operation") ELSE <<>>

ProfileConstants(profile) ==
    IF profile = U32(0, 402)
    THEN ("controlword_enable_operation" :> Value("uint16", 15)) ELSE <<>>

\* std::map::insert(first, last): a name the table holds keeps its element.
InsertAll(table, elements) == table @@ elements

ProfileReadErrorOfDictionary(dict, read) ==
    IF ~ProfileKnown(dict) THEN dictionary_error("unknown_entry") ELSE NoError

\* The error get_device_profile_number() raises: get_entry(0x1000) throws
\* unknown_entry when the dictionary does not hold 0x1000sub0, and the
\* sdo_error of the failed upload.
ProfileReadError(dict, read) ==
    IF ~ProfileKnown(dict) THEN dictionary_error("unknown_entry")
    ELSE IF ~read.ok THEN RaisedAfterLoop(sdo_error("response_timeout", 0))
    ELSE NoError

\* The caller enters Device::start.
start ==
    /\ Idle
    /\ Alive
    /\ Len(trace) < MaxTrace
    /\ op' = [NoOp EXCEPT !.kind = "start"]
    /\ pc' = "load_operations"
    /\ err' = NoError
    /\ ret' = InvalidValue
    /\ sdo_log' = <<>>
    /\ outcomes' = <<>>
    /\ events' = <<>>
    /\ UNCHANGED <<m_dictionary, repeats, offset, cob_id, att, last_error>>
    /\ UNCHANGED <<nmt_vars, Config, main_vars, life_vars, map_vars, pdo_vars, rx_vars, remote>>

\* load_operations() (table = "operations") or load_constants(): the read
\* of the profile number, which stores the value read in the entry, and the
\* insert of the profile's elements.
StartLoad(table, read) ==
    /\ op.kind = "start"
    /\ pc = IF table = "operations" THEN "load_operations" ELSE "load_constants"
    /\ LET e == ProfileReadError(m_dictionary, read)
           device_type == Address(4096, 0)
           profile == ProfileNumber(read.data) IN
        IF e # NoError
        THEN /\ pc' = "thrown"
             /\ err' = [e EXCEPT !.at = pc]
             /\ outcomes' = Append(outcomes, e.type)
             /\ events' = <<>>
             /\ UNCHANGED <<m_dictionary, m_operations, m_constants>>
        ELSE /\ pc' = IF table = "operations" THEN "load_constants" ELSE "send_nmt_message"
             /\ err' = NoError
             /\ outcomes' = Append(outcomes, "ok")
             /\ m_dictionary' =
                    [m_dictionary EXCEPT ![device_type].value = Value("uint32", read.data)]
             /\ events' = SetValueEvents(device_type, m_dictionary[device_type])
             /\ m_operations' = IF table = "operations"
                                THEN InsertAll(m_operations, ProfileOperations(profile))
                                ELSE m_operations
             /\ m_constants' = IF table = "constants"
                               THEN InsertAll(m_constants, ProfileConstants(profile))
                               ELSE m_constants
    /\ UNCHANGED <<op, ret, sdo_log, repeats, offset, cob_id, att, last_error>>
    /\ UNCHANGED <<m_node_id, terminating_, request_heartbeat_thread_, trace>>
    /\ UNCHANGED <<nmt_vars, Config, main_vars, map_vars, pdo_vars, rx_vars, remote>>

start_load_operations == \E read \in DeviceTypeReads : StartLoad("operations", read)

start_load_constants == \E read \in DeviceTypeReads : StartLoad("constants", read)

\* m_core.nmt.send_nmt_message(m_node_id, NMT::Command::start_node), and the
\* return.
start_send_nmt_message ==
    /\ op.kind = "start"
    /\ pc = "send_nmt_message"
    /\ trace' = Append(trace, NmtMessage(m_node_id, start_node))
    /\ pc' = "returned"
    /\ events' = <<>>
    /\ UNCHANGED <<m_dictionary, op, err, ret, sdo_log, outcomes,
                   repeats, offset, cob_id, att, last_error>>
    /\ UNCHANGED <<m_node_id, m_operations, m_constants, terminating_,
                   request_heartbeat_thread_>>
    /\ UNCHANGED <<nmt_vars, Config, main_vars, map_vars, pdo_vars, rx_vars, remote>>

\* A Device of any node id whose dictionary is empty or holds 0x1000sub0.
InitStart ==
    /\ m_dictionary \in
          {<<>>,
           Address(4096, 0) :> [Entry("uint32", "sdo", "sdo") EXCEPT !.name = "device_type"]}
    /\ m_name_to_address =
          [n \in {m_dictionary[a].name : a \in DOMAIN m_dictionary} |-> Address(4096, 0)]
    /\ m_receive_pdo_mappings = {}
    /\ m_transmit_pdo_mappings = {}
    /\ rx_pc = "idle"
    /\ rx_call = NoCall
    /\ remote = <<>>
    /\ events = <<>>
    /\ repeats = 0
    /\ op = NoOp
    /\ pc = "idle"
    /\ offset = 0
    /\ cob_id = {}
    /\ att = -1
    /\ last_error = UnknownSdoError
    /\ err = NoError
    /\ ret = InvalidValue
    /\ sdo_log = <<>>
    /\ outcomes = <<>>
    /\ Config = DefaultConfig
    /\ InitMain
    /\ m_node_id \in Nodes
    /\ m_operations = <<>>
    /\ m_constants = <<>>
    /\ terminating_ = FALSE
    /\ request_heartbeat_thread_ = NoThread
    /\ cob_ids_ = <<>>
    /\ pdo_callbacks = <<>>
    /\ trace = <<>>
    /\ InitNMT

NextStart ==
    \/ start
    \/ start_load_operations
    \/ start_load_constants
    \/ start_send_nmt_message
    \/ add_operation

SpecStart == InitStart /\ [][NextStart]_vars

(***************************************************************************)
(* SpecHeartbeat: request_heartbeat, the producer thread it starts         *)
(* (Device::send_heartbeat, statement by statement), stop_request_heartbeat *)
(* and the destructor.  The producer thread and the join are taken with    *)
(* weak fairness: m_core.send and sleep_for return, and a thread that can  *)
(* run does run.                                                           *)
(***************************************************************************)
\* uint16_t heartbeat_interval: 0 and 100 ms.
HeartbeatIntervals == {0, 100}

\* NMT::State of the frame: Operational, Pre-operational.
HeartbeatStates == {5, 127}

StartsProducerAgain(heartbeat_interval, thread) == heartbeat_interval # 0

\* if (heartbeat_interval) { if (!request_heartbeat_thread_) { ... } }
StartsProducer(heartbeat_interval, thread) == heartbeat_interval # 0 /\ ~thread.started

\* Device::request_heartbeat(node_id, heartbeat_interval, rtr, state)
RequestHeartbeat(node_id, heartbeat_interval, state) ==
    /\ Idle
    /\ Alive
    /\ request_heartbeat_thread_' =
          IF StartsProducer(heartbeat_interval, request_heartbeat_thread_)
          THEN [started |-> TRUE, joined |-> FALSE, pc |-> "test", node_id |-> node_id,
                heartbeat_interval |-> heartbeat_interval, state |-> state]
          ELSE request_heartbeat_thread_
    /\ Finish("request_heartbeat", NoError, <<>>)
    /\ UNCHANGED <<m_node_id, m_operations, m_constants, terminating_, trace>>
    /\ UNCHANGED <<m_dictionary, map_vars, pdo_vars>>

request_heartbeat ==
    \E node_id \in Nodes, heartbeat_interval \in HeartbeatIntervals,
       state \in HeartbeatStates :
        RequestHeartbeat(node_id, heartbeat_interval, state)

\* The frame of send_heartbeat: {0x700 + node_id, rtr, 0x01, {state}}.
HeartbeatFrame(node_id, state) == TraceEntry("heartbeat", "send", 1792 + node_id, <<state>>)

\* The producer thread leaves every step of the caller's as it is.
ProducerStep ==
    /\ events' = <<>>
    /\ UNCHANGED <<m_node_id, m_operations, m_constants, terminating_>>
    /\ UNCHANGED <<nmt_vars, Config, main_vars, dev_vars, map_vars, pdo_vars, rx_vars, remote>>

LoopRunsOn(terminating) == TRUE

\* while (!terminating_)
LoopRuns(terminating) == ~terminating

send_heartbeat_test ==
    /\ request_heartbeat_thread_.pc = "test"
    /\ request_heartbeat_thread_' =
          [request_heartbeat_thread_ EXCEPT
              !.pc = IF LoopRuns(terminating_) THEN "send" ELSE "ended"]
    /\ UNCHANGED trace
    /\ ProducerStep

\* m_core.send(request_heartbeat). A frame is sent while the trace has room
\* for it and for the entries of a stopping operation still to come.
send_heartbeat_send ==
    /\ request_heartbeat_thread_.pc = "send"
    /\ Len(trace) < MaxTrace
    /\ terminating_ \/ Len(trace) + 3 <= MaxTrace
    /\ trace' = Append(trace, HeartbeatFrame(request_heartbeat_thread_.node_id,
                                             request_heartbeat_thread_.state))
    /\ request_heartbeat_thread_' = [request_heartbeat_thread_ EXCEPT !.pc = "sleep"]
    /\ ProducerStep

\* std::this_thread::sleep_for(milliseconds(heartbeat_interval)) returns.
send_heartbeat_sleep ==
    /\ request_heartbeat_thread_.pc = "sleep"
    /\ request_heartbeat_thread_' = [request_heartbeat_thread_ EXCEPT !.pc = "test"]
    /\ UNCHANGED trace
    /\ ProducerStep

\* The call and the return of a stopping operation, in the trace.
CallOf(kind) == TraceEntry("caller", "call", 0, <<kind>>)

ReturnOf(kind) == TraceEntry("caller", "return", 0, <<kind>>)

\* The callbacks the engine keeps after remove_pdo_received_callback(cob_id)
\* for each cob_id of cob_ids.
RECURSIVE RemoveCallbacks(_, _)
RemoveCallbacks(callbacks, cob_ids) ==
    IF callbacks = <<>> THEN <<>>
    ELSE IF \E i \in 1..Len(cob_ids) : cob_ids[i] = Head(callbacks).cob_id
         THEN RemoveCallbacks(Tail(callbacks), cob_ids)
         ELSE <<Head(callbacks)>> \o RemoveCallbacks(Tail(callbacks), cob_ids)

\* stop_request_heartbeat() (kind = "stop_request_heartbeat"), or ~Device():
\* the callbacks of cob_ids_ are removed, then stop_request_heartbeat() runs.
\* terminating_ = true; without a joinable thread the call returns, else it
\* is in join().
Stop(kind) ==
    /\ Idle
    /\ Alive
    /\ Len(trace) + 3 <= MaxTrace
    /\ terminating_' = TRUE
    /\ pdo_callbacks' = IF kind = "~Device"
                        THEN RemoveCallbacks(pdo_callbacks, cob_ids_) ELSE pdo_callbacks
    /\ op' = [NoOp EXCEPT !.kind = kind]
    /\ IF request_heartbeat_thread_.started /\ ~request_heartbeat_thread_.joined
       THEN /\ pc' = "join"
            /\ trace' = Append(trace, CallOf(kind))
       ELSE /\ pc' = "returned"
            /\ trace' = trace \o <<CallOf(kind), ReturnOf(kind)>>
    /\ err' = NoError
    /\ ret' = InvalidValue
    /\ sdo_log' = <<>>
    /\ outcomes' = <<>>
    /\ events' = <<>>
    /\ UNCHANGED <<m_dictionary, repeats, offset, cob_id, att, last_error>>
    /\ UNCHANGED <<m_node_id, m_operations, m_constants, request_heartbeat_thread_, cob_ids_>>
    /\ UNCHANGED <<nmt_vars, Config, main_vars, map_vars, rx_vars, remote>>

stop_request_heartbeat == Stop("stop_request_heartbeat")

destroy == Stop("~Device")

\* request_heartbeat_thread_->join() returns when the thread has ended.
join ==
    /\ pc = "join"
    /\ request_heartbeat_thread_.pc = "ended"
    /\ request_heartbeat_thread_' = [request_heartbeat_thread_ EXCEPT !.joined = TRUE]
    /\ pc' = "returned"
    /\ trace' = Append(trace, ReturnOf(op.kind))
    /\ events' = <<>>
    /\ UNCHANGED <<m_dictionary, op, err, ret, sdo_log, outcomes,
                   repeats, offset, cob_id, att, last_error>>
    /\ UNCHANGED <<m_node_id, m_operations, m_constants, terminating_>>
    /\ UNCHANGED <<nmt_vars, Config, main_vars, map_vars, pdo_vars, rx_vars, remote>>

NextHeartbeat ==
    \/ request_heartbeat
    \/ send_heartbeat_test
    \/ send_heartbeat_send
    \/ send_heartbeat_sleep
    \/ stop_request_heartbeat
    \/ destroy
    \/ join

SpecHeartbeat ==
    /\ InitDict
    /\ [][NextHeartbeat]_vars
    /\ WF_vars(send_heartbeat_test)
    /\ WF_vars(send_heartbeat_send)
    /\ WF_vars(send_heartbeat_sleep)
    /\ WF_vars(join)

(***************************************************************************)
(* SpecPdo: a Device whose dictionary holds the controlword and the        *)
(* velocity actual value, as after the EDS load of the example.  A caller  *)
(* registers receive and transmit PDO mappings and calls set_entry and     *)
(* get_entry; the receiver thread runs pdo_received_callback on inbound    *)
(* frames; the worker thread of a PERIODIC transmit PDO sends.             *)
(***************************************************************************)
\* 0x6040sub0 controlword (uint16), 0x606Csub0 velocity actual value (32 bit).
PdoDictionary ==
    (Address(24640, 0) :> [Entry("uint16", "sdo", "sdo") EXCEPT !.name = "controlword"])
        @@ (Address(24684, 0) :>
                [Entry("uint32", "pdo", "pdo") EXCEPT !.name = "velocity_actual_value"])

PdoNames ==
    ("controlword" :> Address(24640, 0)) @@ ("velocity_actual_value" :> Address(24684, 0))

InitPdo ==
    /\ m_dictionary = PdoDictionary
    /\ m_name_to_address = PdoNames
    /\ m_receive_pdo_mappings = {}
    /\ m_transmit_pdo_mappings = {}
    /\ repeats = 0
    /\ rx_pc = "idle"
    /\ rx_call = NoCall
    /\ remote = <<>>
    /\ events = <<>>
    /\ InitCaller
    /\ InitDevice(1)
    /\ InitNMT

\* Receive mappings as in the example: by name, on 0x181.
add_receive_pdo_mapping_of_name ==
    \E cob \in ReceiveCobIds, entry_name \in DOMAIN PdoNames, byte_offset \in MappingOffsets :
        AddReceiveByName(cob, entry_name, byte_offset)

\* The mappings of the transmit PDOs: the controlword alone; the velocity
\* and the controlword behind it.
TransmitMappings ==
    {<<Mapping("controlword", 0)>>,
     <<Mapping("velocity_actual_value", 0), Mapping("controlword", 4)>>}

\* A PDO object is registered once.
add_transmit_pdo_mapping_of_names ==
    \E cob \in TransmitCobIds, mappings \in TransmitMappings,
       transmission_type \in TransmissionTypes :
        /\ \A pdo \in m_transmit_pdo_mappings :
              ~(pdo.cob_id = cob /\ pdo.mappings = mappings
                    /\ pdo.transmission_type = transmission_type)
        /\ AddTransmitByName(cob, mappings, transmission_type)

\* A two-byte and an eight-byte inbound frame.
PdoPayloads == {<<1, 2>>, <<1, 2, 3, 4, 5, 6, 7, 8>>}

inbound_pdo ==
    \E mapping \in m_receive_pdo_mappings, data \in PdoPayloads : CallbackLookup(mapping, data)

\* The worker thread of a PERIODIC transmit PDO: pdo.send(), then
\* sleep_for(repeat_time), while run_periodic_transmitter.
periodic_transmitter ==
    /\ \E pdo \in m_transmit_pdo_mappings :
          /\ pdo.run_periodic_transmitter
          /\ events' = <<Event("send", Address(0, 0), pdo.cob_id)>>
    /\ UNCHANGED <<nmt_vars, Config, main_vars, life_vars, dev_vars, map_vars, pdo_vars, rx_vars, remote>>

\* 0x0006 as in the example; a 32 bit value.
PdoCallerValues == {Value("uint16", 6), Value("uint32", U32(0, 6))}

set_entry_of_pdo ==
    \E address \in DOMAIN PdoDictionary, value \in PdoCallerValues, method \in {"sdo", "pdo"} :
        StartCall("set", address, value, method)

get_entry_of_pdo ==
    \E address \in DOMAIN PdoDictionary, method \in {"pdo_request_and_wait"} :
        StartCall("get", address, InvalidValue, method)

NextPdo ==
    \/ add_receive_pdo_mapping_of_name
    \/ add_transmit_pdo_mapping_of_names
    \/ inbound_pdo
    \/ callback_update
    \/ periodic_transmitter
    \/ set_entry_of_pdo
    \/ get_entry_of_pdo
    \/ Enter
    \/ SdoTransfer

SpecPdo == InitPdo /\ [][NextPdo]_vars

(***************************************************************************)
(* SpecWorkers: the threads a Device starts, step by step.  The worker of  *)
(* a PERIODIC transmit PDO runs                                            *)
(*     while (pdo.run_periodic_transmitter) { pdo.send(); sleep_for(..); } *)
(* and the heartbeat producer runs send_heartbeat; the trace holds what    *)
(* they send and the sleeps of the workers.  Core::stop() is not part of   *)
(* the sources at hand: it is taken as the specification describes it, a   *)
(* call that sets a termination flag of the Core, and the trace records    *)
(* the call.                                                               *)
(***************************************************************************)
WorkerEntry(what, pdo) == TraceEntry("periodic_transmitter", what, pdo.cob_id, <<>>)

\* A step of the worker thread of pdo, which moves to position `to`.
WorkerStep(pdo, to) ==
    /\ m_transmit_pdo_mappings' =
          (m_transmit_pdo_mappings \ {pdo}) \cup {[pdo EXCEPT !.periodic_transmitter = to]}
    /\ events' = <<>>
    /\ UNCHANGED <<m_node_id, m_operations, m_constants, terminating_,
                   request_heartbeat_thread_>>
    /\ UNCHANGED <<m_name_to_address, m_receive_pdo_mappings>>
    /\ UNCHANGED <<nmt_vars, Config, main_vars, dev_vars, pdo_vars, rx_vars, remote>>

\* while (pdo.run_periodic_transmitter)
periodic_transmitter_test ==
    \E pdo \in m_transmit_pdo_mappings :
        /\ pdo.periodic_transmitter = "test"
        /\ WorkerStep(pdo, IF pdo.run_periodic_transmitter THEN "send" ELSE "ended")
        /\ UNCHANGED trace

\* pdo.send()
periodic_transmitter_send ==
    \E pdo \in m_transmit_pdo_mappings :
        /\ pdo.periodic_transmitter = "send"
        /\ Len(trace) < MaxTrace
        /\ trace' = Append(trace, WorkerEntry("send", pdo))
        /\ WorkerStep(pdo, "sleep")

\* std::this_thread::sleep_for(repeat_time)
periodic_transmitter_sleep ==
    \E pdo \in m_transmit_pdo_mappings :
        /\ pdo.periodic_transmitter = "sleep"
        /\ Len(trace) < MaxTrace
        /\ trace' = Append(trace, WorkerEntry("sleep", pdo))
        /\ WorkerStep(pdo, "test")

CoreStop == TraceEntry("core", "stop", 0, <<>>)

CoreStopped(t) == \E i \in 1..Len(t) : t[i] = CoreStop

\* Core::stop(), called once.
core_stop ==
    /\ ~CoreStopped(trace)
    /\ Len(trace) < MaxTrace
    /\ trace' = Append(trace, CoreStop)
    /\ events' = <<>>
    /\ UNCHANGED <<m_node_id, m_operations, m_constants, terminating_,
                   request_heartbeat_thread_>>
    /\ UNCHANGED <<nmt_vars, Config, main_vars, dev_vars, map_vars, pdo_vars, rx_vars, remote>>

NextWorkers ==
    \/ add_transmit_pdo_mapping_of_names
    \/ request_heartbeat
    \/ send_heartbeat_test
    \/ send_heartbeat_send
    \/ send_heartbeat_sleep
    \/ periodic_transmitter_test
    \/ periodic_transmitter_send
    \/ periodic_transmitter_sleep
    \/ core_stop

SpecWorkers == InitPdo /\ [][NextWorkers]_vars

(***************************************************************************)
(* SpecDestroy: a Device registers receive PDO mappings through the three  *)
(* overloads of add_receive_pdo_mapping, may start a heartbeat producer,   *)
(* and is destroyed.  m_core.pdo is not part of the sources at hand: its   *)
(* remove_pdo_received_callback(cob_id) is taken to drop every callback    *)
(* registered on cob_id.                                                   *)
(***************************************************************************)
\* add_receive_pdo_mapping(cob_id, entry_name, offset, funtion): the binding
\* calls the user's function; cob_id is not appended to cob_ids_.
AddReceiveWithFunction(cob, entry_name, byte_offset) ==
    /\ Idle
    /\ Cardinality(m_receive_pdo_mappings) < MaxMappings
    /\ Len(pdo_callbacks) < MaxMappings
    /\ LET name == Escape(entry_name) IN
        IF ~has_entry_name(name)
        THEN /\ Done("add_receive_pdo_mapping", dictionary_error("unknown_entry"))
             /\ UNCHANGED <<m_receive_pdo_mappings, pdo_vars>>
        ELSE LET entry == m_dictionary[m_name_to_address[name]] IN
            IF byte_offset + TypeSize(entry.type) > 8
            THEN /\ Done("add_receive_pdo_mapping", dictionary_error("mapping_size"))
                 /\ UNCHANGED <<m_receive_pdo_mappings, pdo_vars>>
            ELSE /\ m_receive_pdo_mappings' =
                        m_receive_pdo_mappings \cup {ReceivePDOMapping(cob, name, byte_offset)}
                 /\ pdo_callbacks' = Append(pdo_callbacks, Callback(cob, "funtion"))
                 /\ UNCHANGED cob_ids_
                 /\ Done("add_receive_pdo_mapping", NoError)
    /\ UNCHANGED <<m_dictionary, m_name_to_address, m_transmit_pdo_mappings>>

\* The names a caller maps: the two entries and a name the dictionary lacks.
DestroyNames == DOMAIN PdoNames \cup {"statusword"}

add_receive_pdo_mapping_by_entry_name ==
    /\ Alive
    /\ \E cob \in ReceiveCobIds, entry_name \in DestroyNames, byte_offset \in MappingOffsets :
          AddReceiveByName(cob, entry_name, byte_offset)

add_receive_pdo_mapping_with_function ==
    /\ Alive
    /\ \E cob \in ReceiveCobIds, entry_name \in DestroyNames, byte_offset \in MappingOffsets :
          AddReceiveWithFunction(cob, entry_name, byte_offset)

add_receive_pdo_mapping_by_entry_index ==
    /\ Alive
    /\ \E cob \in ReceiveCobIds, address \in DOMAIN PdoDictionary,
          byte_offset \in MappingOffsets :
          AddReceiveByIndex(cob, address, byte_offset)

NextDestroy ==
    \/ add_receive_pdo_mapping_by_entry_name
    \/ add_receive_pdo_mapping_with_function
    \/ add_receive_pdo_mapping_by_entry_index
    \/ request_heartbeat
    \/ send_heartbeat_test
    \/ send_heartbeat_send
    \/ send_heartbeat_sleep
    \/ destroy
    \/ join

SpecDestroy == InitPdo /\ [][NextDestroy]_vars

(***************************************************************************)
(* SpecUnknown: the operations of a Device that name an entry, by name or  *)
(* by address, on a dictionary that starts empty and that add_entry fills: *)
(* get_entry_type, get_entry, set_entry and the overloads of               *)
(* add_receive_pdo_mapping.                                                *)
(***************************************************************************)
\* Type Device::get_entry_type(index, subindex): the type is returned as a
\* Value of that type without data.
GetEntryType(address) ==
    /\ Idle
    /\ IF ~has_entry(address)
       THEN Finish("get_entry_type", dictionary_error("unknown_entry"), <<>>)
       ELSE /\ op' = [NoOp EXCEPT !.kind = "get_entry_type"]
            /\ pc' = "returned"
            /\ err' = NoError
            /\ ret' = [InvalidValue EXCEPT !.type = m_dictionary[address].type]
            /\ sdo_log' = <<>>
            /\ outcomes' = <<>>
            /\ events' = <<>>
            /\ UNCHANGED <<repeats, offset, cob_id, att, last_error>>
            /\ UNCHANGED <<nmt_vars, Config, main_vars, rx_vars, remote>>
    /\ UNCHANGED <<m_dictionary, map_vars, pdo_vars, life_vars>>

\* Type Device::get_entry_type(entry_name)
GetEntryTypeByName(entry_name) ==
    LET name == Escape(entry_name) IN
    IF has_entry_name(name)
    THEN GetEntryType(m_name_to_address[name])
    ELSE /\ Idle
         /\ Finish("get_entry_type", dictionary_error("unknown_entry"), <<>>)
         /\ UNCHANGED <<m_dictionary, map_vars, pdo_vars, life_vars>>

get_entry_type ==
    \/ \E address \in DictAddresses : GetEntryType(address)
    \/ \E entry_name \in CallerNames : GetEntryTypeByName(entry_name)

get_entry_at ==
    \E address \in DictAddresses, method \in {"sdo", "pdo"} :
        StartCall("get", address, InvalidValue, method)

set_entry_at ==
    \E address \in DictAddresses, value \in {Value("uint16", 6)}, method \in {"sdo", "pdo"} :
        StartCall("set", address, value, method)

add_receive_pdo_mapping_function ==
    \E cob \in ReceiveCobIds, entry_name \in CallerNames, byte_offset \in MappingOffsets :
        AddReceiveWithFunction(cob, entry_name, byte_offset)

NextUnknown ==
    \/ add_entry
    \/ add_receive_pdo_mapping
    \/ add_receive_pdo_mapping_function
    \/ get_entry_type
    \/ get_entry_by_name
    \/ set_entry_by_name
    \/ get_entry_at
    \/ set_entry_at
    \/ Enter
    \/ SdoTransfer

SpecUnknown == InitDict /\ [][NextUnknown]_vars

(***************************************************************************)
(* SpecCache: get_entry and set_entry on entries that ON_CHANGE transmit   *)
(* PDOs subscribe to, with SDO transfers that succeed or fail and no other *)
(* thread touching the dictionary.                                         *)
(***************************************************************************)
InitCache ==
    /\ m_dictionary = PdoDictionary
    /\ m_name_to_address = PdoNames
    /\ m_receive_pdo_mappings = {}
    /\ m_transmit_pdo_mappings = {}
    /\ repeats \in 0..MaxRepeats
    /\ rx_pc = "idle"
    /\ rx_call = NoCall
    /\ remote = <<>>
    /\ events = <<>>
    /\ InitCaller
    /\ InitDevice(1)
    /\ InitNMT

get_entry_of_cache ==
    \E address \in DOMAIN PdoDictionary, method \in {"sdo", "use_default", "pdo"} :
        StartCall("get", address, InvalidValue, method)

NextCache ==
    \/ add_transmit_pdo_mapping_of_names
    \/ get_entry_of_cache
    \/ set_entry_of_pdo
    \/ Enter
    \/ SdoTransfer

SpecCache == InitCache /\ [][NextCache]_vars

(***************************************************************************)
(* SpecRead: read_complete_dictionary on the dictionaries that add_entry   *)
(* and the registration of a receive PDO mapping by index build.  The loop *)
(* visits m_dictionary in the order of its keys and calls                  *)
(* get_entry(pair.second.name), whose access method is the default one;    *)
(* each SDO read of an entry succeeds or fails as a whole.                 *)
(***************************************************************************)
\* The order of std::map<Address, Entry>: by index, then by subindex.
AddressLess(a, b) == a[1] < b[1] \/ (a[1] = b[1] /\ a[2] < b[2])

RECURSIVE SortedAddresses(_)
SortedAddresses(addresses) ==
    IF addresses = {} THEN <<>>
    ELSE LET first == CHOOSE a \in addresses : \A b \in addresses \ {a} : AddressLess(a, b) IN
         <<first>> \o SortedAddresses(addresses \ {first})

\* The data the remote node answers an upload of an entry of the type with.
ReadData(type) ==
    CASE type = "uint32" -> U32(0, 385)
      [] type = "uint16" -> 1000
      [] OTHER -> 0

\* catch (const sdo_error& error)
CatchesError(error) == error.class = "sdo_error"

\* The loop of read_complete_dictionary over the addresses still to visit;
\* the uploads of the entries at `fails` raise an sdo_error. r holds the
\* dictionary, the uploads issued, the get_entry calls made with the
\* set_value calls they led to, and the error that has left the loop.
RECURSIVE ReadAll(_, _, _, _)
ReadAll(r, addresses, names, fails) ==
    IF addresses = <<>> \/ r.error # NoError THEN r
    ELSE
        LET address == Head(addresses)
            name == Escape(r.dict[address].name)
            called == Append(r.events, Event("get_entry", address, 0)) IN
        IF ~(name \in DOMAIN names /\ names[name] \in DOMAIN r.dict)
        THEN IF CatchesError(dictionary_error("unknown_entry"))
             THEN ReadAll([r EXCEPT !.events = called, !.dict[address].disabled = TRUE],
                          Tail(addresses), names, fails)
             ELSE [r EXCEPT !.events = called, !.error = dictionary_error("unknown_entry")]
        ELSE
            LET target == names[name]
                entry == r.dict[target]
                upload == [dir |-> "upload", address |-> target, value |-> InvalidValue] IN
            IF entry.read_access_method # "sdo"
            THEN ReadAll([r EXCEPT !.events = called], Tail(addresses), names, fails)
            ELSE IF target \in fails
            THEN ReadAll([r EXCEPT !.events = called,
                                   !.sdo_log = Append(@, upload),
                                   !.dict[address].disabled = TRUE],
                         Tail(addresses), names, fails)
            ELSE LET value == Value(entry.type, ReadData(entry.type)) IN
                 ReadAll([r EXCEPT !.events = called \o SetValueEvents(target, entry),
                                   !.sdo_log = Append(@, [upload EXCEPT !.value = value]),
                                   !.dict[target].value = value],
                         Tail(addresses), names, fails)

\* Device::read_complete_dictionary()
ReadCompleteDictionary(fails) ==
    /\ Idle
    /\ LET r == ReadAll([dict |-> m_dictionary, sdo_log |-> <<>>, events |-> <<>>,
                         error |-> NoError],
                        SortedAddresses(DOMAIN m_dictionary), m_name_to_address, fails) IN
        /\ m_dictionary' = r.dict
        /\ sdo_log' = r.sdo_log
        /\ events' = r.events
        /\ pc' = IF r.error = NoError THEN "returned" ELSE "thrown"
        /\ err' = IF r.error = NoError THEN NoError
                  ELSE [r.error EXCEPT !.at = "read_complete_dictionary"]
    /\ op' = [NoOp EXCEPT !.kind = "read_complete_dictionary"]
    /\ ret' = InvalidValue
    /\ outcomes' = <<>>
    /\ UNCHANGED <<repeats, offset, cob_id, att, last_error>>
    /\ UNCHANGED <<nmt_vars, Config, main_vars, map_vars, pdo_vars, life_vars, rx_vars, remote>>

read_complete_dictionary ==
    \E fails \in SUBSET DOMAIN m_dictionary : ReadCompleteDictionary(fails)

\* 0x1000sub0, 0x6040sub0 and 0x606Csub0, and the names a caller gives them.
ReadAddresses == {Address(4096, 0), Address(24640, 0), Address(24684, 0)}

ReadNames == CallerNames \cup {"velocity_actual_value"}

add_entry_of_read ==
    \E address \in ReadAddresses, name \in ReadNames :
        AddEntry(address[1], address[2], name, TypeAt(address))

add_receive_pdo_mapping_of_index ==
    \E cob \in ReceiveCobIds, address \in IndexAddresses, byte_offset \in MappingOffsets :
        AddReceiveByIndex(cob, address, byte_offset)

NextRead ==
    \/ add_entry_of_read
    \/ add_receive_pdo_mapping_of_index
    \/ read_complete_dictionary

SpecRead == InitDict /\ [][NextRead]_vars

(***************************************************************************)
(* SpecTeardown: the receiver thread dispatching PDO frames to the         *)
(* callbacks of a Device while a caller destroys the Device.  The PDO      *)
(* engine is not part of the sources at hand: as the specification has it, *)
(* its registry mutex is released before a callback runs, so that a        *)
(* callback taken from the registry runs whatever is removed meanwhile.    *)
(***************************************************************************)
\* The engine starts the callback of a receive mapping that is registered.
dispatch_pdo ==
    \E mapping \in m_receive_pdo_mappings, data \in PdoPayloads :
        /\ \E i \in 1..Len(pdo_callbacks) :
              pdo_callbacks[i] = Callback(mapping.cob_id, "pdo_received_callback")
        /\ CallbackLookup(mapping, data)

NextTeardown ==
    \/ add_receive_pdo_mapping_by_entry_name
    \/ add_receive_pdo_mapping_by_entry_index
    \/ dispatch_pdo
    \/ callback_update
    \/ request_heartbeat
    \/ send_heartbeat_test
    \/ send_heartbeat_send
    \/ send_heartbeat_sleep
    \/ destroy
    \/ join

SpecTeardown == InitPdo /\ [][NextTeardown]_vars

(***************************************************************************)
(* SpecExample: main() of simple_pdo_rw_maxon.cpp with its device_alive    *)
(* and device_dead callbacks, which the NMT runs on threads of their own,  *)
(* and the signal handler.                                                 *)
(***************************************************************************)
MaxDevices == 2

\* const uint8_t node_id = 1 (178).
example_node_id == 1

Unlocked == UNCHANGED <<nmt_vars, Config, dev_vars, map_vars, pdo_vars, life_vars, rx_vars,
                        remote, events>>

\* void intHandler(int): keepRunning = 0.
intHandler ==
    /\ keepRunning
    /\ keepRunning' = FALSE
    /\ UNCHANGED <<found_node, device_connected, device, devices_made, device_mutex,
                   main_pc, alive_pc, dead_pc>>
    /\ Unlocked

\* while (keepRunning) { if (device_connected) { ... } sleep_for(100ms); }
\* device_connected is read before device_mutex is taken.
main_test ==
    /\ main_pc = "test"
    /\ main_pc' = IF ~keepRunning THEN "finished"
                  ELSE IF device_connected THEN "lock" ELSE "sleep"
    /\ UNCHANGED <<keepRunning, found_node, device_connected, device, devices_made,
                   device_mutex, alive_pc, dead_pc>>
    /\ Unlocked

\* std::lock_guard<std::mutex> lock(device_mutex) of the loop.
main_lock ==
    /\ main_pc = "lock"
    /\ device_mutex = "free"
    /\ device_mutex' = "main"
    /\ main_pc' = "use"
    /\ UNCHANGED <<keepRunning, found_node, device_connected, device, devices_made,
                   alive_pc, dead_pc>>
    /\ Unlocked

\* device->get_entry(...) ... device->set_entry(...), exceptions caught; the
\* guard is released at the end of the block.  Through an empty pointer the
\* calls are undefined: the process ends there, or goes on.
main_use ==
    /\ main_pc = "use"
    /\ \E outcome \in IF device = 0 THEN {"crashed", "sleep"} ELSE {"sleep"} :
          /\ main_pc' = outcome
          /\ device_mutex' = IF outcome = "crashed" THEN device_mutex ELSE "free"
    /\ UNCHANGED <<keepRunning, found_node, device_connected, device, devices_made,
                   alive_pc, dead_pc>>
    /\ Unlocked

main_sleep ==
    /\ main_pc = "sleep"
    /\ main_pc' = "test"
    /\ UNCHANGED <<keepRunning, found_node, device_connected, device, devices_made,
                   device_mutex, alive_pc, dead_pc>>
    /\ Unlocked

\* The device_alive callback up to its lock: found_node is tested and set
\* without the mutex.
device_alive_test(new_node_id) ==
    /\ main_pc # "crashed"
    /\ alive_pc = "idle"
    /\ devices_made < MaxDevices
    /\ IF new_node_id = example_node_id /\ ~found_node
       THEN found_node' = TRUE /\ alive_pc' = "lock"
       ELSE UNCHANGED <<found_node, alive_pc>>
    /\ UNCHANGED <<keepRunning, device_connected, device, devices_made, device_mutex,
                   main_pc, dead_pc>>
    /\ Unlocked

device_alive_lock ==
    /\ alive_pc = "lock"
    /\ device_mutex = "free"
    /\ device_mutex' = "alive"
    /\ alive_pc' = "reset"
    /\ UNCHANGED <<keepRunning, found_node, device_connected, device, devices_made,
                   main_pc, dead_pc>>
    /\ Unlocked

\* device.reset(new kaco::Device(core, node_id)).
device_alive_reset ==
    /\ alive_pc = "reset"
    /\ devices_made' = devices_made + 1
    /\ device' = devices_made + 1
    /\ alive_pc' = "init"
    /\ UNCHANGED <<keepRunning, found_node, device_connected, device_mutex, main_pc, dead_pc>>
    /\ Unlocked

\* The rest of the try block: device_connected = true at its end, or the
\* catch block, which leaves the pointer as it is.
device_alive_init(ok) ==
    /\ alive_pc = "init"
    /\ IF ok
       THEN device_connected' = TRUE /\ UNCHANGED found_node
       ELSE found_node' = FALSE /\ device_connected' = FALSE
    /\ device_mutex' = "free"
    /\ alive_pc' = "idle"
    /\ UNCHANGED <<keepRunning, device, devices_made, main_pc, dead_pc>>
    /\ Unlocked

\* The device_dead callback up to its lock: the flags are tested without
\* the mutex.
device_dead_test(new_node_id) ==
    /\ main_pc # "crashed"
    /\ dead_pc = "idle"
    /\ dead_pc' = IF (device_connected /\ found_node) /\ new_node_id = example_node_id
                  THEN "lock" ELSE "idle"
    /\ UNCHANGED <<keepRunning, found_node, device_connected, device, devices_made,
                   device_mutex, main_pc, alive_pc>>
    /\ Unlocked

device_dead_lock ==
    /\ dead_pc = "lock"
    /\ device_mutex = "free"
    /\ device_mutex' = "dead"
    /\ dead_pc' = "reset"
    /\ UNCHANGED <<keepRunning, found_node, device_connected, device, devices_made,
                   main_pc, alive_pc>>
    /\ Unlocked

\* found_node = false; device_connected = false; device.reset();
device_dead_reset ==
    /\ dead_pc = "reset"
    /\ found_node' = FALSE
    /\ device_connected' = FALSE
    /\ device' = 0
    /\ device_mutex' = "free"
    /\ dead_pc' = "idle"
    /\ UNCHANGED <<keepRunning, devices_made, main_pc, alive_pc>>
    /\ Unlocked

device_alive_callback ==
    \/ \E new_node_id \in Nodes : device_alive_test(new_node_id)
    \/ device_alive_lock
    \/ device_alive_reset
    \/ \E ok \in BOOLEAN : device_alive_init(ok)

device_dead_callback ==
    \/ \E new_node_id \in Nodes : device_dead_test(new_node_id)
    \/ device_dead_lock
    \/ device_dead_reset

NextExample ==
    \/ intHandler
    \/ main_test
    \/ main_lock
    \/ main_use
    \/ main_sleep
    \/ device_alive_callback
    \/ device_dead_callback

SpecExample == InitPdo /\ [][NextExample]_vars

(***************************************************************************)
(* SpecRoundTrip: a caller writes an entry by SDO and reads it back by     *)
(* SDO, set_entry(address, value, sdo) followed by get_entry(address,      *)
(* sdo), against a remote node that keeps what is downloaded to it.        *)
(***************************************************************************)
RemoteAfterDownloadLost(store, address, bytes) == store

\* The remote node stores the bytes of a download.
RemoteAfterDownload(store, address, bytes) == [store EXCEPT ![address] = bytes]

\* The remote node holds zeros in every object before the first download.
InitRoundTrip ==
    /\ m_dictionary = SdoDictionary
    /\ repeats \in 0..MaxRepeats
    /\ m_name_to_address = <<>>
    /\ m_receive_pdo_mappings = {}
    /\ m_transmit_pdo_mappings = {}
    /\ rx_pc = "idle"
    /\ rx_call = NoCall
    /\ remote = [a \in DOMAIN SdoDictionary |-> BytesOf(0, TypeSize(SdoDictionary[a].type))]
    /\ events = <<>>
    /\ InitCaller
    /\ InitDevice(1)
    /\ InitNMT

\* set_entry(address, value, sdo); get_entry(address, sdo): the caller up to
\* its first call.
StartSetGet(address, value) ==
    /\ Idle
    /\ op' = [NoOp EXCEPT !.kind = "set_get", !.address = address, !.value = value,
                          !.method = "sdo"]
    /\ pc' = "set"
    /\ err' = NoError
    /\ ret' = InvalidValue
    /\ sdo_log' = <<>>
    /\ outcomes' = <<>>
    /\ events' = <<>>
    /\ UNCHANGED <<m_dictionary, repeats, offset, cob_id, att, last_error>>
    /\ UNCHANGED <<nmt_vars, Config, main_vars, life_vars, map_vars, pdo_vars, rx_vars, remote>>

set_entry_get_entry ==
    \E address \in CallerAddresses, value \in CallerValues : StartSetGet(address, value)

\* One m_core.sdo.upload or download against that node: an upload that
\* succeeds returns the bytes the node holds; a download that succeeds was
\* stored, one that timed out was stored or was not, an aborted one was not.
SdoTransferStored ==
    /\ pc \in CallPositions
    /\ att >= 0
    /\ LET c == CallAt(pc)
           type == m_dictionary[c.address].type IN
        \E outcome \in SdoOutcomes :
            IF c.kind = "get"
            THEN /\ Attempt(outcome, ValueOfBytes(type, remote[c.address]).data)
                 /\ UNCHANGED remote
            ELSE /\ Attempt(outcome, 0)
                 /\ \E stored \in IF outcome.ok THEN {TRUE}
                                   ELSE IF outcome.error.type = "response_timeout"
                                        THEN BOOLEAN ELSE {FALSE} :
                        remote' = IF stored
                                  THEN RemoteAfterDownload(remote, c.address, get_bytes(c.value))
                                  ELSE remote

NextRoundTrip == set_entry_get_entry \/ Enter \/ SdoTransferStored

SpecRoundTrip == InitRoundTrip /\ [][NextRoundTrip]_vars

(***************************************************************************)
(* SpecNMT: heartbeat frames and liveness sweeps, no Device.               *)
(***************************************************************************)
InitNoDevice ==
    /\ m_dictionary = <<>>
    /\ repeats = 0
    /\ InitCaller
    /\ InitDevice(1)
    /\ InitNoMappings
    /\ InitNMT

SpecNMT == InitNoDevice /\ [][NextNMT]_vars

(***************************************************************************)
(* C1: after two consecutive liveness sweeps with no heartbeat from a node *)
(* that was ALIVE the node is DEAD and device_dead has been dispatched for *)
(* it exactly once; every further sweep without a heartbeat leaves it DEAD *)
(* and dispatches no further device_dead callback.                         *)
(***************************************************************************)
C1_DeadExactlyOnceAfterTwoSweeps ==
    \A n \in Nodes :
        since_hb[n] >= 2 => alive_devices_[n] = "DEAD" /\ dead_since_hb[n] = 1

C1_Witness ==
    \E n \in Nodes :
        since_hb[n] = 3 /\ alive_devices_[n] = "DEAD" /\ dead_since_hb[n] = 1

(***************************************************************************)
(* C2: a node whose heartbeat arrives at least once between every two      *)
(* consecutive sweeps is never DEAD and never causes a device_dead         *)
(* dispatch; a heartbeat puts the node (also a TO_BE_KILLED one) back to   *)
(* ALIVE before the next sweep.                                            *)
(***************************************************************************)
C2_RegularHeartbeatNeverDead ==
    \A n \in Nodes :
        /\ (alive_devices_[n] # "NONE" /\ regular[n])
              => alive_devices_[n] \in {"ALIVE", "TO_BE_KILLED"} /\ dead_fired[n] = 0
        /\ (alive_devices_[n] # "NONE" /\ since_hb[n] = 0) => alive_devices_[n] = "ALIVE"

C2_Witness ==
    \E n \in Nodes :
        /\ regular[n]
        /\ sweeps_seen[n] >= 2
        /\ since_hb[n] = 0
        /\ alive_devices_[n] = "ALIVE"

(***************************************************************************)
(* C3: when a heartbeat frame of node n is processed, the device_alive     *)
(* callbacks are dispatched for n exactly when n was not ALIVE immediately *)
(* before the frame (no entry, TO_BE_KILLED or DEAD); in both cases n is   *)
(* ALIVE afterwards.                                                       *)
(***************************************************************************)
C3_AliveFiredIffNotAlive ==
    [][\A n \in Nodes :
          (hb_tick' # hb_tick /\ hb_last'.node = n) =>
              /\ alive_devices_'[n] = "ALIVE"
              /\ alive_devices_[n] # "ALIVE" => alive_fired'[n] = alive_fired[n] + 1
              /\ alive_devices_[n] = "ALIVE" => alive_fired'[n] = alive_fired[n]
              /\ \A m \in Nodes \ {n} : alive_fired'[m] = alive_fired[m]]_nmt_vars

C3_Witness ==
    \E n \in Nodes :
        /\ hb_last.node = n
        /\ alive_devices_[n] = "ALIVE"
        /\ alive_fired[n] = 2
        /\ dead_fired[n] = 1
        /\ since_hb[n] = 0

(***************************************************************************)
(* What the remap sequence is to issue, stated without the code's          *)
(* operators: first the upload `first` of the COB-ID, then the downloads.  *)
(***************************************************************************)
IsMap == op.kind \in {"map_tpdo", "map_rpdo"}

Download(address, type, data) ==
    [dir |-> "download", address |-> address, value |-> [type |-> type, data |-> data]]

CommIndexOf(o) == (IF o.kind = "map_rpdo" THEN 5120 ELSE 6144) + o.pdo_no - 1

MappIndexOf(o) == (IF o.kind = "map_rpdo" THEN 5632 ELSE 6656) + o.pdo_no - 1

ExpectedLog(o, first) ==
    LET comm == CommIndexOf(o)
        mapp == MappIndexOf(o)
        k == Len(o.entries)
        c == first.data
    IN  <<[dir |-> "upload", address |-> <<comm, 1>>, value |-> first]>>
        \o <<Download(<<comm, 1>>, "uint32", c \cup {31})>>
        \o <<Download(<<mapp, 0>>, "uint8", 0)>>
        \o [i \in 1..k |-> Download(<<mapp, i>>, "uint32", o.entries[i])]
        \o <<Download(<<mapp, 0>>, "uint8", k)>>
        \o <<Download(<<comm, 2>>, "uint8", o.transmit_type)>>
        \o (IF o.kind = "map_tpdo" /\ o.nargs \in {4, 5}
            THEN <<Download(<<comm, 3>>, "uint16", InhibitTime)>> ELSE <<>>)
        \o (IF o.kind = "map_tpdo" /\ o.nargs = 5
            THEN <<Download(<<comm, 5>>, "uint16", EventTimer)>> ELSE <<>>)
        \o <<Download(<<comm, 1>>, "uint32", c \ {31})>>

IsPrefix(a, b) == Len(a) <= Len(b) /\ SubSeq(b, 1, Len(a)) = a

(***************************************************************************)
(* C5: map_tpdo_in_device / map_rpdo_in_device issue their SDO operations  *)
(* in this order: upload of (comm, 1); download of (comm, 1) with bit 31   *)
(* set; (mapp, 0) = 0; (mapp, i) = wi for i = 1..k; (mapp, 0) = k;         *)
(* (comm, 2) = t; (comm, 3) and (comm, 5) only in the overloads that take  *)
(* them; last (comm, 1) with bit 31 cleared.  The operations issued so far *)
(* are at every moment a prefix of that sequence, and the whole of it when *)
(* the call has returned.                                                  *)
(***************************************************************************)
C5_RemapOrder ==
    IsMap =>
        /\ Len(sdo_log) > 0 => IsPrefix(sdo_log, ExpectedLog(op, sdo_log[1].value))
        /\ pc = "returned" =>
              Len(sdo_log) > 0 /\ sdo_log = ExpectedLog(op, sdo_log[1].value)

C5_Witness ==
    /\ op.kind = "map_tpdo"
    /\ op.nargs = 5
    /\ op.pdo_no = 3
    /\ Len(op.entries) = 2
    /\ op.entries[1] # op.entries[2]
    /\ pc = "returned"
    /\ Len(sdo_log) = 10

(***************************************************************************)
(* C6: when a step of the remap fails the sequence stops at that step: the *)
(* error is raised to the caller, no operation of a later step has been or *)
(* will be issued, and when the failing step comes after the disable write *)
(* and before the enable write, no enable write is sent.                   *)
(***************************************************************************)
StepOrdinal(p, o, off) ==
    LET k == Len(o.entries) IN
    CASE p = "read_cob" -> 1
      [] p = "disable" -> 2
      [] p = "clear" -> 3
      [] p = "write_entry" -> 3 + off
      [] p = "count" -> 4 + k
      [] p = "ttype" -> 5 + k
      [] p = "inhibit" -> 6 + k
      [] p = "event" -> 7 + k
      [] p = "enable" -> Len(ExpectedLog(o, InvalidValue))
      [] OTHER -> 0

C6_FailureStopsSequence ==
    (IsMap /\ err # NoError) =>
        /\ pc = "thrown"
        /\ ~ENABLED (Enter \/ SdoTransfer)
        /\ Len(sdo_log) =
              IF err.class = "sdo_error" THEN StepOrdinal(err.at, op, offset)
              ELSE IF err.at = "get_indexes" THEN 0
              ELSE StepOrdinal(err.at, op, offset) - 1
        /\ err.at # "enable" =>
              \A i \in 3..Len(sdo_log) : sdo_log[i].address # <<CommIndexOf(op), 1>>

C6_Witness ==
    /\ IsMap
    /\ pc = "thrown"
    /\ err.class = "sdo_error"
    /\ err.at = "count"
    /\ Len(op.entries) = 2
    /\ Len(sdo_log) = 6

(***************************************************************************)
(* C7: for every 32-bit COB-ID value c read from communication subindex 1, *)
(* with bit 31 set or not, the disable write carries c with bit 31 set and *)
(* the other 31 bits unchanged, and the final enable write carries c with  *)
(* bit 31 cleared and the other 31 bits unchanged.                         *)
(***************************************************************************)
C7_CobIdBit31 ==
    (IsMap /\ Len(sdo_log) >= 2) =>
        LET c == sdo_log[1].value.data
            disable == sdo_log[2].value.data
            enable == sdo_log[Len(sdo_log)].value.data
        IN  /\ 31 \in disable
            /\ \A b \in 0..30 : b \in disable <=> b \in c
            /\ pc = "returned" =>
                  /\ 31 \notin enable
                  /\ \A b \in 0..30 : b \in enable <=> b \in c

C7_Witness ==
    /\ IsMap
    /\ pc = "returned"
    /\ Len(sdo_log) >= 2
    /\ sdo_log[1].value.data = 0..31
    /\ sdo_log[2].value.data = 0..31
    /\ sdo_log[Len(sdo_log)].value.data = 0..30

(***************************************************************************)
(* C8: a get_entry / set_entry whose method resolves to sdo makes at most  *)
(* repeats_on_sdo_timeout + 1 SDO transaction attempts; it returns at the  *)
(* first attempt that succeeds, and when all N + 1 attempts fail it raises *)
(* an sdo_error of type response_timeout.                                  *)
(***************************************************************************)
IsCall == op.kind \in {"get", "set"}

C8_AtMostRepeatsPlusOneAttempts ==
    IsCall =>
        /\ Len(outcomes) <= repeats + 1
        /\ \A i \in 1..(Len(outcomes) - 1) : outcomes[i] # "ok"
        /\ att >= 0 => att = Len(outcomes) /\ att <= repeats
        /\ (pc = "returned" /\ Len(outcomes) > 0) => outcomes[Len(outcomes)] = "ok"
        /\ (pc = "thrown" /\ err.class = "sdo_error") =>
              /\ Len(outcomes) = repeats + 1
              /\ \A i \in 1..Len(outcomes) : outcomes[i] # "ok"
              /\ err.type = "response_timeout"

C8_Witness ==
    /\ IsCall
    /\ repeats = 1
    /\ pc = "thrown"
    /\ outcomes = <<"response_timeout", "response_timeout">>
    /\ err.type = "response_timeout"

(***************************************************************************)
(* C9: when the remote node answers an SDO request with an abort, the read *)
(* or write is not retried (exactly one attempt is made) and the caller    *)
(* receives an SDO error that identifies the abort and its abort code, not *)
(* a response_timeout error.                                               *)
(***************************************************************************)
C9_AbortNotRetried ==
    (IsCall /\ Len(outcomes) > 0 /\ outcomes[1] = "abort") =>
        /\ Len(outcomes) = 1
        /\ pc = "thrown"
        /\ err.class = "sdo_error"
        /\ err.type = "abort"
        /\ err.abort_code \in AbortCodes

\* What the caller gets: both attempts were answered with an abort, and the
\* error raised is a response_timeout that carries no abort code.
C9_Witness ==
    /\ IsCall
    /\ repeats = 1
    /\ outcomes = <<"abort", "abort">>
    /\ pc = "thrown"
    /\ err.type = "response_timeout"
    /\ err.abort_code = 0
    /\ err.last = "abort"

C11_EveryEntryIsNamed ==
    \A address \in DOMAIN m_dictionary :
        /\ m_dictionary[address].name \in DOMAIN m_name_to_address
        /\ m_name_to_address[m_dictionary[address].name] = address

\* The index-based add_receive_pdo_mapping has inserted a default entry at
\* 0x6040sub0: its name is empty and the name index is still empty.
C11_Witness ==
    /\ Address(24640, 0) \in DOMAIN m_dictionary
    /\ m_dictionary[Address(24640, 0)].name = ""
    /\ m_dictionary[Address(24640, 0)].type = "invalid"
    /\ m_name_to_address = <<>>
    /\ m_receive_pdo_mappings # {}

(***************************************************************************)
(* C12: accesses to a Device's dictionary and name index are mutually      *)
(* exclusive between threads: the receiver thread is never inside          *)
(* pdo_received_callback, holding a reference into the dictionary, while a *)
(* caller thread is inside add_entry between its two insertions.           *)
(***************************************************************************)
C12_MutualExclusion == ~(pc = "add_entry" /\ rx_pc = "callback")

\* The receiver is in the callback while the dictionary holds the entry
\* add_entry has just inserted and the name index does not hold its name yet.
C12_Witness ==
    /\ pc = "add_entry"
    /\ rx_pc = "callback"
    /\ op.address \in DOMAIN m_dictionary
    /\ m_dictionary[op.address].name \notin DOMAIN m_name_to_address
    /\ rx_call.address # op.address

MapsEntry(mapping, address) ==
    /\ Escape(mapping.entry_name) \in DOMAIN m_name_to_address
    /\ m_name_to_address[Escape(mapping.entry_name)] = address

C14_RequestAndWait ==
    [][(/\ op.kind = "get"
        /\ op.method = "pdo_request_and_wait"
        /\ pc = "get"
        /\ pc' # "get"
        /\ has_entry(op.address)
        /\ \E mapping \in m_receive_pdo_mappings : MapsEntry(mapping, op.address))
       => /\ pc' # "returned"
          /\ \E i \in DOMAIN events', mapping \in m_receive_pdo_mappings :
                /\ MapsEntry(mapping, op.address)
                /\ events'[i].kind = "rtr"
                /\ events'[i].cob_id = mapping.cob_id]_vars

\* The call has returned the invalid cached value of the velocity, which a
\* receive PDO on 0x181 maps: no frame was requested, no PDO was received.
C14_Witness ==
    /\ op.kind = "get"
    /\ op.method = "pdo_request_and_wait"
    /\ op.address = Address(24684, 0)
    /\ pc = "returned"
    /\ ret = InvalidValue
    /\ events = <<>>
    /\ rx_call = NoCall
    /\ ReceivePDOMapping(385, "velocity_actual_value", 0) \in m_receive_pdo_mappings

(***************************************************************************)
(* C15: set_entry with a value whose type differs from the entry's type    *)
(* fails with dictionary_error wrong_type; the cached value is unchanged,  *)
(* no value-changed subscriber runs and no SDO download is issued.         *)
(***************************************************************************)
C15_WrongTypeChangesNothing ==
    [][(/\ op.kind = "set"
        /\ pc = "set"
        /\ att = -1
        /\ pc' # "set" \/ att' # -1
        /\ has_entry(op.address)
        /\ op.value.type # m_dictionary[op.address].type)
       => /\ pc' = "thrown"
          /\ err'.class = "dictionary_error"
          /\ err'.type = "wrong_type"
          /\ m_dictionary' = m_dictionary
          /\ events' = <<>>
          /\ sdo_log' = <<>>
          /\ att' = -1]_vars

\* A 32 bit value for the controlword, by SDO: the call has thrown, the
\* entry still holds the 0x0006 written before and its subscriber of the
\* ON_CHANGE PDO has not run.
C15_Witness ==
    /\ op.kind = "set"
    /\ op.method = "sdo"
    /\ op.address = Address(24640, 0)
    /\ op.value.type = "uint32"
    /\ pc = "thrown"
    /\ err.type = "wrong_type"
    /\ m_dictionary[op.address].value = Value("uint16", 6)
    /\ m_dictionary[op.address].subscribers # <<>>
    /\ events = <<>>
    /\ sdo_log = <<>>

(***************************************************************************)
(* C18: an inbound PDO payload shorter than offset + width of a mapping is *)
(* dropped for that mapping: the mapped entry's cached value is unchanged, *)
(* no value-changed subscriber runs, no error is raised, and the receiver  *)
(* is ready for the next frame with the mapping still registered.          *)
(***************************************************************************)
WidthInBytes(type) ==
    CASE type = "uint8" -> 1
      [] type = "uint16" -> 2
      [] type = "uint32" -> 4
      [] OTHER -> 0

C18_ShortPayloadDropped ==
    [][(/\ rx_pc = "callback"
        /\ rx_pc' # "callback"
        /\ Len(rx_call.data) <
              rx_call.offset + WidthInBytes(m_dictionary[rx_call.address].type))
       => /\ m_dictionary' = m_dictionary
          /\ events' = <<>>
          /\ err' = err
          /\ pc' = pc
          /\ rx_pc' = "idle"
          /\ m_receive_pdo_mappings' = m_receive_pdo_mappings]_vars

\* A two-byte frame for the controlword mapped at offset 6 has been dropped:
\* the entry, which an ON_CHANGE transmit PDO subscribes to, is still invalid.
C18_Witness ==
    /\ rx_pc = "idle"
    /\ rx_call = [address |-> Address(24640, 0), offset |-> 6, data |-> <<1, 2>>]
    /\ m_dictionary[Address(24640, 0)].value = InvalidValue
    /\ m_dictionary[Address(24640, 0)].subscribers # <<>>
    /\ events = <<>>
    /\ err = NoError
    /\ ReceivePDOMapping(385, "controlword", 6) \in m_receive_pdo_mappings

(***************************************************************************)
(* C19: for an inbound PDO frame with a registered receive mapping and a   *)
(* payload of at least offset + width bytes, the mapped entry's value      *)
(* becomes exactly the payload bytes [offset, offset + width) typed as the *)
(* entry's type, the entry's value-changed subscribers are notified, and   *)
(* every other entry keeps its value.                                      *)
(***************************************************************************)
C19_PayloadSliceAssigned ==
    [][(/\ rx_pc = "callback"
        /\ rx_pc' # "callback"
        /\ m_dictionary[rx_call.address].type # "invalid"
        /\ Len(rx_call.data) >=
              rx_call.offset + WidthInBytes(m_dictionary[rx_call.address].type))
       => LET address == rx_call.address
              entry == m_dictionary[address]
              width == WidthInBytes(entry.type) IN
          /\ DOMAIN m_dictionary' = DOMAIN m_dictionary
          /\ m_dictionary'[address].value.type = entry.type
          /\ get_bytes(m_dictionary'[address].value) =
                SubSeq(rx_call.data, rx_call.offset + 1, rx_call.offset + width)
          /\ Len(events') = 1 + Len(entry.subscribers)
          /\ events'[1] = Event("set_value", address, 0)
          /\ \A i \in 1..Len(entry.subscribers) :
                events'[i + 1] = Event("send", address, entry.subscribers[i])
          /\ \A other \in DOMAIN m_dictionary \ {address} :
                m_dictionary'[other] = m_dictionary[other]]_vars

\* An eight-byte frame for the controlword mapped at offset 6: the entry
\* holds 0x0807, bytes 6 and 7 of the payload, and the send closure of the
\* ON_CHANGE transmit PDO on 0x201 has run.
C19_Witness ==
    /\ rx_pc = "idle"
    /\ rx_call = [address |-> Address(24640, 0), offset |-> 6,
                  data |-> <<1, 2, 3, 4, 5, 6, 7, 8>>]
    /\ m_dictionary[Address(24640, 0)].value = Value("uint16", 2055)
    /\ m_dictionary[Address(24684, 0)].value = InvalidValue
    /\ events = <<Event("set_value", Address(24640, 0), 0),
                  Event("send", Address(24640, 0), 513)>>

(***************************************************************************)
(* C20: a transmit PDO registered with ON_CHANGE starts no worker thread;  *)
(* every later assignment to one of its mapped entries (by set_entry or by *)
(* an inbound PDO update) causes one send of that PDO; with no assignment  *)
(* to a mapped entry no frame of that PDO is sent.                         *)
(***************************************************************************)
OnChangePdos == {pdo \in m_transmit_pdo_mappings : pdo.transmission_type = "ON_CHANGE"}

MapsAddress(pdo, address) ==
    \E i \in DOMAIN pdo.mappings : MapsEntry(pdo.mappings[i], address)

SendsOf(evs, address, cob) ==
    Cardinality({i \in DOMAIN evs : evs[i] = Event("send", address, cob)})

MappedEntries(mapping) ==
    {m_dictionary[address] :
        address \in {a \in DOMAIN m_dictionary : MapsEntry(mapping, a)}}

C17_MappingsFit ==
    \A mapping \in m_receive_pdo_mappings :
        \A entry \in MappedEntries(mapping) :
            mapping.offset + WidthInBytes(entry.type) <= 8

\* The mapping of "device_type" at offset 6 was registered while the name
\* belonged to a 16 bit entry; after the load it names the 32 bit entry
\* 0x1000sub0.
C17_Witness ==
    /\ ReceivePDOMapping(385, "device_type", 6) \in m_receive_pdo_mappings
    /\ "device_type" \in DOMAIN m_name_to_address
    /\ m_name_to_address["device_type"] = Address(4096, 0)
    /\ m_dictionary[Address(4096, 0)].type = "uint32"

NamesEntry(entry_name) ==
    /\ Escape(entry_name) \in DOMAIN m_name_to_address
    /\ m_name_to_address[Escape(entry_name)] \in DOMAIN m_dictionary

C22_MappedEntriesExist ==
    /\ \A mapping \in m_receive_pdo_mappings : NamesEntry(mapping.entry_name)
    /\ \A pdo \in m_transmit_pdo_mappings :
          \A i \in 1..Len(pdo.mappings) : NamesEntry(pdo.mappings[i].entry_name)

\* Both mappings were registered on "controlword"; the load of an EDS file
\* that calls 0x6040sub0 "control_word" has left them behind.
C22_Witness ==
    /\ ReceivePDOMapping(385, "controlword", 0) \in m_receive_pdo_mappings
    /\ \E pdo \in m_transmit_pdo_mappings : pdo.mappings = <<Mapping("controlword", 0)>>
    /\ "controlword" \notin DOMAIN m_name_to_address
    /\ "control_word" \in DOMAIN m_name_to_address
    /\ Address(24640, 0) \in DOMAIN m_dictionary

(***************************************************************************)
(* C28: add_entry with a name that is in the name index or an address that *)
(* is in the dictionary raises canopen_error and leaves the dictionary and *)
(* the name index as they were; otherwise it adds exactly one dictionary   *)
(* entry, at the address given, and exactly one name, mapped to that       *)
(* address.                                                                *)
(***************************************************************************)
C28_AddEntry ==
    [][\A address \in DictAddresses \ {Address(0, 0)}, name \in CallerNames :
          AddEntry(address[1], address[2], name, TypeAt(address)) =>
              IF \/ Escape(name) \in DOMAIN m_name_to_address
                 \/ address \in DOMAIN m_dictionary
              THEN /\ pc' = "thrown"
                   /\ err'.class = "canopen_error"
                   /\ m_dictionary' = m_dictionary
                   /\ m_name_to_address' = m_name_to_address
              ELSE /\ pc' = "returned"
                   /\ DOMAIN m_dictionary' = DOMAIN m_dictionary \cup {address}
                   /\ \A a \in DOMAIN m_dictionary : m_dictionary'[a] = m_dictionary[a]
                   /\ m_dictionary'[address].name = Escape(name)
                   /\ m_dictionary'[address].type = TypeAt(address)
                   /\ DOMAIN m_name_to_address' =
                          DOMAIN m_name_to_address \cup {Escape(name)}
                   /\ \A n \in DOMAIN m_name_to_address :
                          m_name_to_address'[n] = m_name_to_address[n]
                   /\ m_name_to_address'[Escape(name)] = address]_vars

\* add_entry(0x6040, 0, "Device Type", uint16) has failed on a dictionary
\* that holds 0x6040sub0 under the name "controlword" only.
C28_Witness ==
    /\ pc = "thrown"
    /\ err.at = "add_entry"
    /\ err.class = "canopen_error"
    /\ DOMAIN m_dictionary = {Address(24640, 0)}
    /\ DOMAIN m_name_to_address = {"controlword"}

(***************************************************************************)
(* C30: load_dictionary_from_library on a Device whose dictionary is empty *)
(* and for which the library holds neither a manufacturer EDS nor an EDS   *)
(* of its profile returns with the mandatory CiA 301 entries, 0x1000sub0   *)
(* device_type among them, in the dictionary.                              *)
(***************************************************************************)
C30_MandatoryEntriesLoaded ==
    [][\A finds \in LibraryFinds :
          (/\ DOMAIN m_dictionary = {}
           /\ finds.ready /\ ~finds.manufacturer /\ ~finds.profile /\ finds.mandatory
           /\ LoadDictionaryFromLibrary(finds)) =>
              /\ pc' = "returned"
              /\ \A e \in MandatoryEntries :
                    /\ e.address \in DOMAIN m_dictionary'
                    /\ e.name \in DOMAIN m_name_to_address']_vars

\* The call on the empty dictionary has raised unknown_entry and the
\* dictionary is still empty.
C30_Witness ==
    /\ pc = "thrown"
    /\ err.at = "load_dictionary_from_library"
    /\ err.class = "dictionary_error"
    /\ err.type = "unknown_entry"
    /\ DOMAIN m_dictionary = {}
    /\ DOMAIN m_name_to_address = {}

(***************************************************************************)
(* C29: add_operation and add_constant with a name that is already present *)
(* after escaping fail and leave the operation or constant of that name as *)
(* it was; no add_operation or add_constant replaces an existing one.      *)
(***************************************************************************)
C29_AddKeepsExisting ==
    [][/\ \A operation_name \in TableNames, operation \in Operations :
             (/\ Escape(operation_name) \in DOMAIN m_operations
              /\ AddOperation(operation_name, operation)) =>
                 /\ pc' = "thrown"
                 /\ m_operations' = m_operations
       /\ \A constant_name \in TableNames, constant \in Constants :
             (/\ Escape(constant_name) \in DOMAIN m_constants
              /\ AddConstant(constant_name, constant)) =>
                 /\ pc' = "thrown"
                 /\ m_constants' = m_constants]_vars

\* add_constant on the name "device_type", which held the other constant
\* or this one, has returned after the warning; the constant is the new one.
C29_Witness ==
    /\ op.kind = "add_constant"
    /\ pc = "returned"
    /\ events = <<Warn("Overwriting constant")>>
    /\ m_constants = ("device_type" :> Value("uint16", 7))
    /\ "device_type" \in DOMAIN m_operations

(***************************************************************************)
(* C27: Device::start first loads the profile's operations and constants   *)
(* and then sends exactly one NMT start_node command, addressed to the     *)
(* Device's own node id; when a load raises an error (0x1000 is not in the *)
(* dictionary, or its read fails) start raises that error and sends no NMT *)
(* command.                                                                *)
(***************************************************************************)
C27_StartLoadsThenSends ==
    [][/\ \A table \in {"operations", "constants"}, read \in DeviceTypeReads :
             StartLoad(table, read) =>
                 /\ trace' = trace
                 /\ IF Address(4096, 0) \notin DOMAIN m_dictionary
                    THEN /\ pc' = "thrown"
                         /\ err'.class = "dictionary_error"
                         /\ err'.type = "unknown_entry"
                    ELSE IF ~read.ok
                    THEN /\ pc' = "thrown"
                         /\ err'.class = "sdo_error"
                    ELSE /\ pc' \notin {"thrown", "returned"}
                         /\ (table = "operations" /\ read.data = U32(2, 402)) =>
                                "enable_operation" \in DOMAIN m_operations'
                         /\ (table = "constants" /\ read.data = U32(2, 402)) =>
                                "controlword_enable_operation" \in DOMAIN m_constants'
       /\ trace' # trace =>
             /\ op.kind = "start"
             /\ outcomes = <<"ok", "ok">>
             /\ pc' = "returned"
             /\ trace' = Append(trace, TraceEntry("caller", "send", 0, <<1, m_node_id>>))
       /\ (op'.kind = "start" /\ pc' = "returned" /\ pc # "returned") =>
             Len(trace') = Len(trace) + 1]_vars

\* start() of node 2 has returned after two reads of 0x00020192 and one
\* start_node command to node 2; an earlier start() had raised the sdo_error
\* of its second read.
C27_Witness ==
    /\ m_node_id = 2
    /\ op.kind = "start"
    /\ pc = "returned"
    /\ outcomes = <<"ok", "ok">>
    /\ trace = <<NmtMessage(2, start_node)>>
    /\ "enable_operation" \in DOMAIN m_operations
    /\ "controlword_enable_operation" \in DOMAIN m_constants
    /\ m_dictionary[Address(4096, 0)].value = Value("uint32", U32(2, 402))

HeartbeatSends(t) == {i \in 1..Len(t) : t[i].thread = "heartbeat" /\ t[i].what = "send"}

\* The frames sent after the call at position i of the trace and before the
\* return that follows it.
SentWithin(i) ==
    {k \in HeartbeatSends(trace) :
        /\ k > i
        /\ \A j \in (i + 1)..(k - 1) : trace[j].what # "return"}

C24_StopReturns ==
    /\ (pc = "join") ~> (pc = "returned" /\ request_heartbeat_thread_.pc = "ended")
    /\ [][(terminating_ /\ pc # "join") =>
              HeartbeatSends(trace') = HeartbeatSends(trace)]_vars
    /\ [](\A i \in 1..Len(trace) :
             trace[i].what = "call" => Cardinality(SentWithin(i)) <= 1)

\* stop_request_heartbeat was called while the producer was about to send
\* its first frame: the frame went out, then the call returned.
C24_Witness ==
    /\ trace = <<CallOf("stop_request_heartbeat"), HeartbeatFrame(1, 5),
                 ReturnOf("stop_request_heartbeat")>>
    /\ pc = "returned"
    /\ terminating_
    /\ request_heartbeat_thread_.joined
    /\ request_heartbeat_thread_.pc = "ended"

(***************************************************************************)
(* C21: the worker of a PERIODIC transmit PDO sleeps one period before     *)
(* each send: every frame of the PDO follows a sleep of its worker that no *)
(* other frame of the PDO stands between, so no frame is sent before a     *)
(* period has elapsed since the registration.                              *)
(***************************************************************************)
\* The entries of the worker of the PDO on cob, of one kind, in t.
WorkerEntries(t, what, cob) ==
    {i \in 1..Len(t) :
        t[i].thread = "periodic_transmitter" /\ t[i].what = what /\ t[i].cob_id = cob}

C21_SleepsBeforeEachSend ==
    \A cob \in TransmitCobIds :
        \A i \in WorkerEntries(trace, "send", cob) :
            \E j \in WorkerEntries(trace, "sleep", cob) :
                /\ j < i
                /\ \A k \in WorkerEntries(trace, "send", cob) : ~(j < k /\ k < i)

\* The first thing the worker of the PDO on 0x201 did was to send.
C21_Witness ==
    /\ \E pdo \in m_transmit_pdo_mappings :
          /\ pdo.transmission_type = "PERIODIC"
          /\ pdo.cob_id = 513
          /\ pdo.periodic_transmitter = "sleep"
    /\ trace = <<TraceEntry("periodic_transmitter", "send", 513, <<>>)>>

(***************************************************************************)
(* C26: after Core::stop() every heartbeat producer and every worker of a  *)
(* periodic transmit PDO ends at the next test of its loop, without        *)
(* stop_request_heartbeat or the destructor, and sends nothing after it:   *)
(* once the Core is stopped a loop test ends the thread, and a thread      *)
(* sends at most the one frame it was about to send.                       *)
(***************************************************************************)
\* The frames a thread sent on cob after Core::stop().
SentAfterStop(thread, cob) ==
    {i \in 1..Len(trace) :
        /\ trace[i].thread = thread /\ trace[i].what = "send" /\ trace[i].cob_id = cob
        /\ \E j \in 1..(i - 1) : trace[j] = CoreStop}

C26_CoreStopEndsWorkers ==
    /\ [][CoreStopped(trace) =>
              /\ send_heartbeat_test => request_heartbeat_thread_'.pc = "ended"
              /\ periodic_transmitter_test =>
                     \A pdo \in m_transmit_pdo_mappings' : pdo.periodic_transmitter # "send"]_vars
    /\ [](\A cob \in TransmitCobIds :
             Cardinality(SentAfterStop("periodic_transmitter", cob)) <= 1)
    /\ [](\A node_id \in Nodes :
             Cardinality(SentAfterStop("heartbeat", 1792 + node_id)) <= 1)

\* Core::stop() was called first; the worker of the PDO on 0x201 has sent
\* two frames since.
C26_Witness ==
    /\ terminating_ = FALSE
    /\ trace = <<CoreStop,
                 TraceEntry("periodic_transmitter", "send", 513, <<>>),
                 TraceEntry("periodic_transmitter", "sleep", 513, <<>>),
                 TraceEntry("periodic_transmitter", "send", 513, <<>>)>>

(***************************************************************************)
(* C25: after a Device has been destroyed, no PDO-received callback that   *)
(* it installed through an add_receive_pdo_mapping overload (by name, by   *)
(* name with a user function, by index) is still registered in the PDO     *)
(* engine, and its heartbeat producer has stopped.                         *)
(***************************************************************************)
C25_DestroyedLeavesNothing ==
    (op.kind = "~Device" /\ pc = "returned") =>
        /\ pdo_callbacks = <<>>
        /\ request_heartbeat_thread_.started => request_heartbeat_thread_.pc = "ended"

\* The destructor has returned; the binding of the user's function on 0x181
\* is still registered, and cob_ids_ never held 0x181.
C25_Witness ==
    /\ op.kind = "~Device"
    /\ pc = "returned"
    /\ cob_ids_ = <<>>
    /\ pdo_callbacks = <<Callback(385, "funtion")>>
    /\ m_receive_pdo_mappings = {ReceivePDOMapping(385, "controlword", 0)}

(***************************************************************************)
(* C31: every Device operation that names an entry absent from the         *)
(* dictionary (get_entry, set_entry, get_entry_type and the overloads of   *)
(* add_receive_pdo_mapping, by name or by address) fails with              *)
(* dictionary_error unknown_entry, issues no SDO request, registers no     *)
(* mapping and no callback, and leaves the dictionary and the name index   *)
(* unchanged.                                                              *)
(***************************************************************************)
\* What the step of an operation that fails on an unknown entry does.
FailsOnUnknownEntry ==
    /\ pc' = "thrown"
    /\ err'.class = "dictionary_error"
    /\ err'.type = "unknown_entry"
    /\ Len(sdo_log') <= Len(sdo_log)
    /\ UNCHANGED <<m_dictionary, m_name_to_address, m_receive_pdo_mappings, pdo_callbacks>>

C31_UnknownEntryFails ==
    [][/\ (Enter /\ ~has_entry(CallAt(pc).address)) => FailsOnUnknownEntry
       /\ \A entry_name \in CallerNames :
             ~has_entry_name(entry_name) =>
                 /\ StartCallByName("get", entry_name, InvalidValue, "pdo")
                        => FailsOnUnknownEntry
                 /\ StartCallByName("set", entry_name, Value("uint16", 6), "pdo")
                        => FailsOnUnknownEntry
                 /\ GetEntryTypeByName(entry_name) => FailsOnUnknownEntry
                 /\ \A cob \in ReceiveCobIds, byte_offset \in MappingOffsets :
                       /\ AddReceiveByName(cob, entry_name, byte_offset)
                              => FailsOnUnknownEntry
                       /\ AddReceiveWithFunction(cob, entry_name, byte_offset)
                              => FailsOnUnknownEntry
       /\ \A address \in DictAddresses :
             ~has_entry(address) =>
                 /\ GetEntryType(address) => FailsOnUnknownEntry
                 /\ \A cob \in ReceiveCobIds, byte_offset \in MappingOffsets :
                       AddReceiveByIndex(cob, address, byte_offset) => FailsOnUnknownEntry]_vars

\* add_receive_pdo_mapping(0x181, 0x6040, 0, 0) on the empty dictionary has
\* returned: the mapping and the callback are registered and the dictionary
\* holds a default entry.
C31_Witness ==
    /\ pc = "returned"
    /\ err = NoError
    /\ DOMAIN m_dictionary = {Address(24640, 0)}
    /\ m_dictionary[Address(24640, 0)] = DefaultEntry
    /\ m_receive_pdo_mappings = {ReceivePDOMapping(385, "", 0)}
    /\ pdo_callbacks = <<Callback(385, "pdo_received_callback")>>
    /\ cob_ids_ = <<385>>

(***************************************************************************)
(* C32: for a node that stays not-DEAD because it keeps sending heartbeats *)
(* (at least one between every two consecutive sweeps) the device_alive    *)
(* callbacks are dispatched at most once; they are dispatched again only   *)
(* after the node has been declared DEAD.                                  *)
(***************************************************************************)
C32_AliveFiredOnce ==
    /\ [](\A n \in Nodes : (regular[n] /\ dead_fired[n] = 0) => alive_fired[n] <= 1)
    /\ [][\A n \in Nodes :
             (alive_fired[n] >= 1 /\ alive_fired'[n] > alive_fired[n])
                 => alive_devices_[n] = "DEAD"]_vars

\* Node 1 sent a heartbeat, one sweep passed, it sent a heartbeat again: it
\* was never DEAD and device_alive has been dispatched twice for it.
C32_Witness ==
    /\ regular[1]
    /\ sweeps_seen[1] = 1
    /\ since_hb[1] = 0
    /\ dead_fired[1] = 0
    /\ alive_devices_[1] = "ALIVE"
    /\ alive_fired[1] = 2

(***************************************************************************)
(* C33: when get_entry with a method resolving to sdo fails, all its SDO   *)
(* attempts having failed, the entry's cached value is what it was before  *)
(* the call and no value-changed subscriber has run: no step of a          *)
(* get_entry that does not return changes the dictionary or runs a         *)
(* subscriber.                                                             *)
(***************************************************************************)
C33_FailedGetKeepsCache ==
    /\ [][(op.kind = "get" /\ pc = "get" /\ pc' # "returned") =>
              /\ m_dictionary' = m_dictionary
              /\ events' = <<>>]_vars
    /\ []((op.kind = "get" /\ pc = "thrown") => events = <<>>)

\* get_entry(0x6040, 0, sdo) has failed after two uploads; the controlword
\* keeps the value 6 an earlier set_entry gave it, and a transmit PDO
\* subscribes to it.
C33_Witness ==
    /\ op.kind = "get"
    /\ op.address = Address(24640, 0)
    /\ pc = "thrown"
    /\ err.class = "sdo_error"
    /\ repeats = 1
    /\ Len(outcomes) = 2
    /\ m_dictionary[op.address].value = Value("uint16", 6)
    /\ m_dictionary[op.address].subscribers # <<>>

(***************************************************************************)
(* C34: set_entry with a method resolving to sdo assigns the cached value  *)
(* and runs the value-changed subscribers (the sends of the ON_CHANGE      *)
(* PDOs) before the SDO download is attempted; when the download then      *)
(* fails, set_entry raises the SDO error while the cached value already    *)
(* equals the new value.                                                   *)
(***************************************************************************)
C34_SetAssignsBeforeDownload ==
    /\ [][(op.kind = "set" /\ pc = "set" /\ att = -1 /\ att' = 0) =>
              LET subscribers == m_dictionary[op.address].subscribers IN
              /\ sdo_log' = <<>>
              /\ outcomes' = <<>>
              /\ m_dictionary'[op.address].value = op.value
              /\ Len(events') = 1 + Len(subscribers)
              /\ events'[1] = Event("set_value", op.address, 0)
              /\ \A i \in 1..Len(subscribers) :
                    events'[i + 1] = Event("send", op.address, subscribers[i])]_vars
    /\ []((op.kind = "set" /\ pc = "set" /\ att >= 0) =>
              m_dictionary[op.address].value = op.value)
    /\ []((op.kind = "set" /\ pc = "thrown" /\ err.class = "sdo_error") =>
              /\ m_dictionary[op.address].value = op.value
              /\ \A i \in 1..Len(outcomes) : outcomes[i] # "ok")

\* set_entry(0x6040, 0, 6, sdo) has raised the SDO error of its failed
\* download; the controlword, which a transmit PDO subscribes to, is 6.
C34_Witness ==
    /\ op.kind = "set"
    /\ op.address = Address(24640, 0)
    /\ op.value = Value("uint16", 6)
    /\ pc = "thrown"
    /\ err.class = "sdo_error"
    /\ outcomes # <<>>
    /\ m_dictionary[op.address].value = Value("uint16", 6)
    /\ m_dictionary[op.address].subscribers # <<>>

(***************************************************************************)
(* C35: once stop_request_heartbeat has been called on a Device, no later  *)
(* request_heartbeat on it causes a heartbeat frame to be sent: the        *)
(* termination flag is never reset and a stopped producer is never         *)
(* replaced.                                                               *)
(***************************************************************************)
\* The positions in the trace at which a stopping operation has returned.
StopReturns == {i \in 1..Len(trace) : trace[i].what = "return"}

C35_NoHeartbeatAfterStop ==
    /\ [][terminating_ => terminating_']_vars
    /\ [][(request_heartbeat_thread_.started /\ terminating_) =>
              /\ request_heartbeat_thread_'.started
              /\ request_heartbeat_thread_'.node_id = request_heartbeat_thread_.node_id
              /\ request_heartbeat_thread_'.pc \in {request_heartbeat_thread_.pc, "sleep", "test", "ended"}
              /\ request_heartbeat_thread_.pc = "ended" => request_heartbeat_thread_'.pc = "ended"]_vars
    /\ [][\A node_id \in Nodes, heartbeat_interval \in HeartbeatIntervals,
             state \in HeartbeatStates :
             (terminating_ /\ RequestHeartbeat(node_id, heartbeat_interval, state))
                 => trace' = trace /\ request_heartbeat_thread_'.pc # "send"]_vars
    /\ [](\A i \in StopReturns : \A k \in HeartbeatSends(trace) : k < i)

\* stop_request_heartbeat returned on a Device without a producer; the
\* request_heartbeat that followed started a thread, which has ended at its
\* first test without a frame.
C35_Witness ==
    /\ trace = <<CallOf("stop_request_heartbeat"), ReturnOf("stop_request_heartbeat")>>
    /\ op.kind = "request_heartbeat"
    /\ pc = "returned"
    /\ terminating_
    /\ request_heartbeat_thread_.started
    /\ ~request_heartbeat_thread_.joined
    /\ request_heartbeat_thread_.pc = "ended"

(***************************************************************************)
(* C36: whenever load_dictionary_from_library, load_cia_dictionary or      *)
(* load_dictionary_from_eds is left, by normal return or by a raised       *)
(* error, the process-wide flags eds_library_clear_dictionary,             *)
(* eds_reader_just_add_mappings and eds_reader_mark_entries_as_generic are *)
(* all false, so that a later load starts from the default flags.          *)
(***************************************************************************)
C36_FlagsClearedOnExit ==
    [][/\ \A finds \in LibraryFinds : LoadDictionaryFromLibrary(finds) => Config' = DefaultConfig
       /\ \A eds \in EdsFiles, outcome \in LoadOutcomes :
             LoadDictionaryFromEds(eds, outcome) => Config' = DefaultConfig]_vars

\* load_dictionary_from_library on the empty dictionary, with no
\* manufacturer EDS, has raised unknown_entry out of load_cia_dictionary:
\* eds_reader_mark_entries_as_generic is left set.
C36_Witness ==
    /\ pc = "thrown"
    /\ err.at = "load_dictionary_from_library"
    /\ err.class = "dictionary_error"
    /\ m_dictionary = <<>>
    /\ Config.eds_reader_mark_entries_as_generic
    /\ ~Config.eds_reader_just_add_mappings
    /\ ~Config.eds_library_clear_dictionary

(***************************************************************************)
(* C37: read_complete_dictionary attempts a read of every dictionary       *)
(* entry, marks as disabled exactly the entries whose read raised an SDO   *)
(* error, does not stop at the first failing entry, and never raises an    *)
(* SDO error to its caller.                                                *)
(***************************************************************************)
\* The addresses whose entry a get_entry call of the step was made for.
ReadAttempted(evs) == {evs[i].address : i \in {k \in 1..Len(evs) : evs[k].kind = "get_entry"}}

C37_ReadsEveryEntry ==
    [][\A fails \in SUBSET DOMAIN m_dictionary :
          ReadCompleteDictionary(fails) =>
              /\ ReadAttempted(events') = DOMAIN m_dictionary
              /\ DOMAIN m_dictionary' = DOMAIN m_dictionary
              /\ \A address \in DOMAIN m_dictionary :
                    m_dictionary'[address].disabled =
                        (\/ m_dictionary[address].disabled
                         \/ address \in fails /\ m_dictionary[address].read_access_method = "sdo")
              /\ err'.class # "sdo_error"]_vars

\* read_complete_dictionary has raised unknown_entry at the nameless entry
\* 0x6040sub0 that the registration by index inserted: 0x1000sub0 was read,
\* 0x606Csub0 was not.
C37_Witness ==
    /\ op.kind = "read_complete_dictionary"
    /\ pc = "thrown"
    /\ err.class = "dictionary_error"
    /\ DOMAIN m_dictionary = ReadAddresses
    /\ m_dictionary[Address(24640, 0)].name = ""
    /\ m_dictionary[Address(4096, 0)].value # InvalidValue
    /\ m_dictionary[Address(24684, 0)].value = InvalidValue
    /\ ReadAttempted(events) = {Address(4096, 0), Address(24640, 0)}

(***************************************************************************)
(* C38: no pdo_received_callback bound to a Device executes, or is still   *)
(* executing, after the Device's destructor has completed: a PDO frame     *)
(* dispatched on the receiver thread concurrently with the destruction     *)
(* never touches the dictionary of the destroyed Device.                   *)
(***************************************************************************)
Destroyed == op.kind = "~Device" /\ pc = "returned"

C38_NoCallbackAfterDestruction ==
    /\ [](Destroyed => rx_pc # "callback")
    /\ [][Destroyed => m_dictionary' = m_dictionary]_vars

\* The callback that was running when the destructor returned has since
\* written the controlword of the destroyed Device.
C38_Witness ==
    /\ Destroyed
    /\ pdo_callbacks = <<>>
    /\ rx_pc = "idle"
    /\ events # <<>>
    /\ events[1] = Event("set_value", Address(24640, 0), 0)
    /\ m_dictionary[Address(24640, 0)].value # InvalidValue

(***************************************************************************)
(* C39: in the example program the main loop never uses the device pointer *)
(* while it is empty: under every interleaving of the main loop with the   *)
(* device_dead callback, whenever the main loop dereferences device after  *)
(* it has acquired device_mutex, the pointer refers to a live Device.      *)
(***************************************************************************)
C39_MainUsesLiveDevice ==
    (main_pc = "use" /\ device_mutex = "main") => (device # 0 /\ device = devices_made)

\* The loop is about to call device->get_entry with the mutex held, after
\* the device_dead callback has emptied the pointer.
C39_Witness ==
    /\ main_pc = "use"
    /\ device_mutex = "main"
    /\ dead_pc = "idle"
    /\ devices_made = 1
    /\ ~device_connected
    /\ device = 0

====
